---- MODULE Spec2Model ----
(***************************************************************************)
(* Model of the concurrent download orchestration of nexus-downloader:     *)
(* DownloadManager (queue, thread pool, cancellation event) and            *)
(* DownloadWorker.run, from src/nexus_downloader/core/download_manager.py, *)
(* with the result shape of YtDlpService.download_video from               *)
(* src/nexus_downloader/core/yt_dlp_service.py.                            *)
(*                                                                         *)
(* Threads.  start_download_job, stop_all_downloads, update_settings and   *)
(* the slots connected to the worker signals run on the main (GUI) thread, *)
(* one at a time.  DownloadWorker.run runs on a pool thread.  A worker's   *)
(* signal object lives on the main thread, so an emit from the pool thread *)
(* posts the connected slots to the main thread's event queue (mainQ);     *)
(* the pool thread then returns from run() and only after that stops being *)
(* counted by activeThreadCount().                                         *)
(***************************************************************************)
EXTENDS Integers, Sequences, FiniteSets, TLC

\* ---------------------------------------------------------------- bounds
MaxReq == 2          \* requests submitted over a run (ids 1..MaxReq, in submission order)
MaxLimit == 2        \* largest concurrency limit the settings offer in the model
MaxOutcomes == 3     \* outcomes handed to the window's handlers when driven directly
MaxUrlParts == 2     \* fragments a url is made of, at most
MaxMsgParts == 2     \* fragments a raw resolver error message is made of, at most
MaxEntries == 2      \* entries of a resolved playlist, at most
MaxAdds == 3         \* add_entry calls when the history service is driven directly
MaxTicks == 2        \* progress notifications emitted over a run

\* request ids; one more than MaxReq, for the runs that submit into a non-empty queue
Req == 1..(MaxReq + 1)

\* ------------------------------------------------------------- constants
None == "None"

\* ----------------------------------------------------------------- state
VARIABLES
    download_queue,     \* DownloadManager.download_queue (deque of urls), head first
    maxThreadCount,     \* thread_pool.maxThreadCount()
    activeThreads,      \* thread_pool.activeThreadCount()
    cancellation_event, \* DownloadManager._cancellation_event.is_set()
    nextReq,            \* id the next submitted url gets
    pc,                 \* position of each request's DownloadWorker.run
    retv,               \* what download_video returned to the worker
    outcome,            \* the terminal signal run() has chosen to emit
    mainQ,              \* main thread's posted slot calls, oldest first
    headDelivered,      \* the head's first slot (manager.download_*) has run
    delivered,          \* terminal notifications delivered per request
    started,            \* history: requests in the order they were dequeued and started
    dropped,            \* history: requests removed from the queue by stop_all_downloads
    stopCalled,         \* history: stop_all_downloads has been called
    budget,             \* how many requests the run submits at most
    cleanup_called,     \* history: run() of the request called _cleanup_incomplete_files
    error_message,      \* the message run() passes to signals.error, None if none
    \* --- the parameters a download is started with
    video_resolution,   \* DownloadManager.video_resolution
    app_settings,       \* DownloadManager.app_settings
    enqueuedWith,       \* history: for each queued request, <<the parameters in
                        \* force when it was enqueued>>; <<>> for the others
    \* --- MainWindow
    download_queue_total,      \* MainWindow._download_queue_total
    download_completed_count,  \* MainWindow._download_completed_count
    batch_success_count,       \* MainWindow._batch_success_count
    batch_fail_count,          \* MainWindow._batch_fail_count
    download_button_enabled,   \* download_button.isEnabled()
    download_button_text,      \* download_button.text()
    stop_button_enabled,       \* stop_download_button.isEnabled()
    notification,       \* the summary the latest handler call showed, <<>> if none
    shown,              \* history: summaries shown since the latest submission
    tally,              \* history: outcomes handled, per kind, since the counters were zeroed
    \* --- _get_cookies_path_for_url called on its own
    url,                \* the argument
    cookies_result,     \* what the call returned, None before the call
    \* --- the metadata fetch
    fetch_url,          \* FetchWorker.url
    fetch_pc,           \* "idle", "started" (thread started), "ran" (run() is over)
    resolve_outcome,    \* history: what yt-dlp's extract_info did
    fetch_emitted,      \* the signals FetchWorker.run emitted
    fetch_raised,       \* an exception left FetchWorker.run
    fetch_thread_running, \* fetch_thread.isRunning()
    fetchQ,             \* slots posted to the main thread by the worker's signal
    fetch_reported,     \* manager.fetch_finished / fetch_error emitted to the window
    \* --- recording outcomes to the download history
    download_table,     \* urls that have a row in MainWindow.download_table
    history,            \* HistoryService._history, most recent first
    history_file,       \* the entries saved in download_history.json
    added,              \* history: the entries passed to add_entry, oldest first
    \* --- _cleanup_incomplete_files on a destination folder
    folder,             \* the files of download_folder_path, by name
    part_files,         \* the list glob returned, still to be looked at
    cleanup_pc,         \* "idle", "scanning" (glob done), "done"
    removed,            \* history: names the cleanup removed
    \* --- DownloadWorker.progress_hook
    hook_last,          \* history: the latest invocation of a progress hook
    progress_log,       \* the progress notifications emitted, oldest first
    \* --- set_concurrent_downloads
    limit_arg,          \* history: <<the limit the latest call was given>>, <<>> before
    \* --- the retry loop of _cleanup_incomplete_files
    attempt,            \* os.remove attempts made on the file being looked at
    waited,             \* seconds slept between the attempts on that file
    scan_raised,        \* the sleep or the glob raised, the loop was never entered
    \* --- downloads that share the destination folder with a cleanup
    live,               \* names of the partial files of tasks that are not
                        \* cancelled and still downloading
    \* --- progress notifications on the main thread
    progress_seen,      \* history: progress notifications delivered, per request
    \* --- stop_all_downloads
    at_stop             \* history: tasks that were running, their outcome not yet
                        \* chosen, when a stop was made

mgrVars == <<download_queue, maxThreadCount, activeThreads, cancellation_event, nextReq,
             pc, retv, outcome, mainQ, headDelivered, delivered, started, dropped,
             stopCalled, budget, cleanup_called, error_message>>

prmVars == <<video_resolution, app_settings, enqueuedWith>>

counters == <<download_queue_total, download_completed_count, batch_success_count,
              batch_fail_count>>

uiVars == <<counters, download_button_enabled, download_button_text, stop_button_enabled,
            notification, shown>>

cookieVars == <<url, cookies_result>>

fetchVars == <<fetch_url, fetch_pc, resolve_outcome, fetch_emitted, fetch_raised,
               fetch_thread_running, fetchQ, fetch_reported>>

recVars == <<download_table, history, history_file, added>>

cleanupVars == <<folder, part_files, cleanup_pc, removed>>

hookVars == <<hook_last, progress_log>>

limitVars == <<limit_arg>>

retryVars == <<attempt, waited, scan_raised>>

liveVars == <<live>>

seenVars == <<progress_seen>>

stopVars == <<at_stop>>

moreVars == <<limitVars, retryVars, liveVars, seenVars, stopVars>>

\* what the manager's queue and pool machinery never touches
extVars == <<prmVars, uiVars, tally, cookieVars, fetchVars, recVars, cleanupVars, hookVars, moreVars>>

\* what the parameter handling never touches
notPrmVars == <<uiVars, tally, cookieVars, fetchVars, recVars, cleanupVars, hookVars, moreVars>>

\* what the window's download handling never touches, its tally aside
notWindowVars == <<prmVars, cookieVars, fetchVars, cleanupVars, hookVars, moreVars>>

vars == <<mgrVars, extVars>>

\* --------------------------------------------------------------- helpers
Range(s) == {s[i] : i \in 1..Len(s)}

Ids(a, n) == [i \in 1..n |-> a + i - 1]

Max2(a, b) == IF a >= b THEN a ELSE b

RECURSIVE SumOver(_, _)
SumOver(f, S) == IF S = {} THEN 0
                 ELSE LET x == CHOOSE y \in S : TRUE IN f[x] + SumOver(f, S \ {x})

\* pool threads occupied by a run() that has not yet been released
Running == {"ready", "call", "ret", "decided", "emitted"}
\* run() has not yet emitted its terminal signal
Unreported == {"ready", "call", "ret", "decided"}

\* AppSettings.concurrent_downloads_limit values the settings can hold
LimitChoices == 0..MaxLimit

\* download_video has not returned to the worker: `success, message` unassigned
NoReturn == <<>>

\* YtDlpService.download_video returns a 3-tuple (success, subtitle_status, message);
\* every exception inside it, the progress hook's included, is caught and returned.
DownloadOk == <<TRUE, "subs", None>>
DownloadFail == <<FALSE, None, "msg">>
DownloadVideoResults == {DownloadOk, DownloadFail}

\* `success, message = ...` in DownloadWorker.run unpacks exactly two values
UnpackOk(ret) == Len(ret) = 2

\* ----------------------------------------------------- manager operators
\* set_concurrent_downloads: setMaxThreadCount(max(1, limit))
EffectiveLimit_raw(limit) == limit
EffectiveLimit(limit) == Max2(1, limit)

\* is_idle
is_idle_noqueue == activeThreads = 0
is_idle == activeThreads = 0 /\ download_queue = <<>>

\* stop_all_downloads: the two statements
stop_flag_toggle(f) == ~f
stop_flag(f) == TRUE

stop_queue_keep(q) == q
stop_queue(q) == <<>>

\* the loop condition of _start_next_download
HasCapacity_le(active, maxT) == active <= maxT
HasCapacity(active, maxT) == active < maxT

\* deque.popleft(): <<item taken, rest>>
popright(q) == <<q[Len(q)], SubSeq(q, 1, Len(q) - 1)>>
popleft_peek(q) == <<Head(q), q>>
popleft(q) == <<Head(q), Tail(q)>>

\* _start_next_download's while loop: dequeue and start while there is capacity
RECURSIVE StartLoop(_, _, _, _)
StartLoop(q, active, maxT, acc) ==
    IF q # <<>> /\ HasCapacity(active, maxT)
    THEN LET p == popleft(q)
         IN StartLoop(p[2], active + 1, maxT, Append(acc, p[1]))
    ELSE [queue |-> q, active |-> active, new |-> acc]

\* the slots a worker's terminal signal is connected to: manager.download_<kind>,
\* then _start_next_download; one posted entry stands for the pair
EmitSignals_twice(r, kind) == <<[url |-> r, kind |-> kind], [url |-> r, kind |-> kind]>>
EmitSignals(r, kind) == <<[url |-> r, kind |-> kind]>>

\* the outcome DownloadWorker.run chooses once download_video has returned
AfterCallOutcome_ignoreflag(ret, flag) ==
    IF UnpackOk(ret) THEN (IF ret[1] THEN "finished" ELSE "error") ELSE "error"
AfterCallOutcome_exceptskips(ret, flag) ==
    IF UnpackOk(ret)
    THEN IF flag THEN "cancelled"
         ELSE IF ret[1] THEN "finished" ELSE "error"
    ELSE "error"
AfterCallOutcome(ret, flag) ==
    IF UnpackOk(ret)
    THEN IF flag THEN "cancelled"
         ELSE IF ret[1] THEN "finished" ELSE "error"
    ELSE \* ValueError from the unpack, handled by `except Exception`
         IF flag THEN "cancelled" ELSE "error"

\* checkpoint 1: run() short-circuits when the flag is set as it begins
Checkpoint1_never(flag) == FALSE
Checkpoint1(flag) == flag

\* whether run() calls _cleanup_incomplete_files once download_video has
\* returned: at checkpoint 3 and in the except handler alike, when the flag is set
AfterCallCleanup_always(ret, flag) == TRUE
AfterCallCleanup(ret, flag) == flag

\* the message of signals.error.emit(video_url, ...): download_video's message
\* when the pair unpacks, else str(e) of the ValueError raised by the unpack
UnpackErrorText == "too many values to unpack (expected 2)"
AfterCallMessage(ret) == IF UnpackOk(ret) THEN ret[2] ELSE UnpackErrorText

\* start_download_job: `for url in video_urls: self.download_queue.append(url)`
enqueue_replace(q, urls) == urls
enqueue(q, urls) == q \o urls

\* ------------------------------------------------------------------ text
\* A string is a sequence of fragments; `k in s` is "k is one of s's fragments".
\* Fragments come in the spellings below, so that lower() does something.
UrlParts == {"bilibili.com", "BILIBILI.COM", "b23.tv", "xiaohongshu.com", "XHSLINK.COM",
             "facebook.com", "FB.WATCH", "youtube.com"}

MsgParts == {"412", "too many requests", "Too Many Requests", "geo-restrict", "deleted",
             "Private", "network", "not found", "failed"}

RECURSIVE TextsUpTo(_, _)
TextsUpTo(parts, n) ==
    IF n = 0 THEN {<<>>}
    ELSE LET shorter == TextsUpTo(parts, n - 1)
         IN shorter \cup {Append(t, f) : t \in shorter, f \in parts}

Urls == TextsUpTo(UrlParts, MaxUrlParts) \ {<<>>}

Msgs == TextsUpTo(MsgParts, MaxMsgParts) \ {<<>>}

\* str.lower() on one fragment
LowerPart(f) ==
    CASE f = "BILIBILI.COM" -> "bilibili.com"
      [] f = "XHSLINK.COM" -> "xhslink.com"
      [] f = "FB.WATCH" -> "fb.watch"
      [] f = "Too Many Requests" -> "too many requests"
      [] f = "Private" -> "private"
      [] OTHER -> f

\* str.lower()
lower(s) == [i \in 1..Len(s) |-> LowerPart(s[i])]

\* `k in s`
Has(k, s) == \E i \in 1..Len(s) : s[i] = k

\* DownloadManager._get_cookies_path_for_url
get_cookies_path_for_url_cased(u, settings) ==
    IF Has("bilibili.com", u) \/ Has("b23.tv", u)
    THEN settings.bilibili_cookies_path
    ELSE IF Has("xiaohongshu.com", u) \/ Has("xhslink.com", u)
    THEN settings.xiaohongshu_cookies_path
    ELSE IF Has("facebook.com", u) \/ Has("fb.watch", u)
    THEN settings.facebook_cookies_path
    ELSE ""
get_cookies_path_for_url(u, settings) ==
    LET url_lower == lower(u)
    IN IF Has("bilibili.com", url_lower) \/ Has("b23.tv", url_lower)
       THEN settings.bilibili_cookies_path
       ELSE IF Has("xiaohongshu.com", url_lower) \/ Has("xhslink.com", url_lower)
       THEN settings.xiaohongshu_cookies_path
       ELSE IF Has("facebook.com", url_lower) \/ Has("fb.watch", url_lower)
       THEN settings.facebook_cookies_path
       ELSE ""

\* ------------------------------------------------------------------ Init
\* DownloadManager.__init__: empty queue, pool at the configured limit, flag clear
ManagerInit ==
    /\ download_queue = <<>>
    /\ maxThreadCount \in {EffectiveLimit(l) : l \in LimitChoices}
    /\ activeThreads = 0
    /\ cancellation_event = FALSE
    /\ nextReq = 1
    /\ pc = [r \in Req |-> "none"]
    /\ retv = [r \in Req |-> NoReturn]
    /\ outcome = [r \in Req |-> "none"]
    /\ mainQ = <<>>
    /\ headDelivered = FALSE
    /\ delivered = [r \in Req |-> 0]
    /\ started = <<>>
    /\ dropped = {}
    /\ stopCalled = FALSE
    /\ cleanup_called = [r \in Req |-> FALSE]
    /\ error_message = [r \in Req |-> None]

\* AppSettings as the manager uses them: the limit, the folder, the cookie paths
DefaultSettings ==
    [concurrent_downloads_limit |-> 2, download_folder_path |-> "dirA",
     facebook_cookies_path |-> "", bilibili_cookies_path |-> "",
     xiaohongshu_cookies_path |-> ""]

\* self.video_resolution = "best"; no request enqueued, no worker built
ParamsInit ==
    /\ video_resolution = "best"
    /\ app_settings = DefaultSettings
    /\ enqueuedWith = [r \in Req |-> <<>>]

\* _set_download_button_loading_state(is_loading, current, total): the label
ButtonText(is_loading, current, total) ==
    IF is_loading
    THEN (IF total > 0 THEN <<"Downloading", current, total>> ELSE <<"Downloading...">>)
    ELSE <<"Download">>

\* outcome kinds, as the names of the worker's terminal signals
Kinds == {"finished", "error", "cancelled"}

\* MainWindow.__init__: counters 0, Download enabled, Stop Download disabled
WindowInit ==
    /\ download_queue_total = 0
    /\ download_completed_count = 0
    /\ batch_success_count = 0
    /\ batch_fail_count = 0
    /\ download_button_enabled = TRUE
    /\ download_button_text = ButtonText(FALSE, 0, 0)
    /\ stop_button_enabled = FALSE
    /\ notification = <<>>
    /\ shown = 0
    /\ tally = [k \in Kinds |-> 0]

\* no call of the cookie lookup yet
CookieIdle ==
    /\ url = <<>>
    /\ cookies_result = None

\* fetch_thread = None, fetch_worker = None
FetchInit ==
    /\ fetch_url = <<>>
    /\ fetch_pc = "idle"
    /\ resolve_outcome = [kind |-> "none", n |-> 0, msg |-> <<>>]
    /\ fetch_emitted = <<>>
    /\ fetch_raised = FALSE
    /\ fetch_thread_running = FALSE
    /\ fetchQ = <<>>
    /\ fetch_reported = <<>>

\* an empty download table and a HistoryService constructed on no history file
RecInit ==
    /\ download_table = {}
    /\ history = <<>>
    /\ history_file = <<>>
    /\ added = <<>>

\* names of files in the destination folder, and a name with no file
FileNames == {"f1", "f2"}
Absent == [present |-> FALSE, part |-> FALSE, mtime |-> 0]

\* an empty destination folder and no cleanup under way
CleanupIdle ==
    /\ folder = [f \in FileNames |-> Absent]
    /\ part_files = <<>>
    /\ cleanup_pc = "idle"
    /\ removed = {}

\* no progress hook invoked yet
NoTick == [status |-> "none", percent |-> 0]

HookInit ==
    /\ hook_last = [url |-> 0, d |-> NoTick, raised |-> FALSE]
    /\ progress_log = <<>>

\* no limit set by hand, no cleanup retrying, no download sharing a folder, no
\* progress notification delivered
MoreInit ==
    /\ limit_arg = <<>>
    /\ attempt = 0
    /\ waited = 0
    /\ scan_raised = FALSE
    /\ live = {}
    /\ progress_seen = [r \in Req |-> 0]
    /\ at_stop = {}

\* the other components as constructed
ExtInit ==
    /\ ParamsInit
    /\ WindowInit
    /\ CookieIdle
    /\ FetchInit
    /\ RecInit
    /\ CleanupIdle
    /\ HookInit
    /\ MoreInit

Init ==
    /\ ManagerInit
    /\ budget = MaxReq
    /\ ExtInit

\* --------------------------------------------------- main-thread actions
\* what _start_next_download does to the manager, from queue q
StartNextFrom(q) ==
    LET res == StartLoop(q, activeThreads, maxThreadCount, <<>>)
    IN /\ download_queue' = res.queue
       /\ activeThreads' = res.active
       /\ started' = started \o res.new
       /\ pc' = [r \in Req |-> IF r \in Range(res.new) THEN "ready" ELSE pc[r]]

\* start_download_job(video_urls) with n fresh urls
start_download_job_keepflag(n) ==
    /\ nextReq + n - 1 <= budget
    /\ nextReq' = nextReq + n
    /\ StartNextFrom(enqueue(download_queue, Ids(nextReq, n)))
    /\ UNCHANGED <<maxThreadCount, cancellation_event, retv, outcome, mainQ, headDelivered,
                   delivered, dropped, stopCalled, budget, cleanup_called, error_message>>
start_download_job(n) ==
    /\ nextReq + n - 1 <= budget
    /\ cancellation_event' = FALSE
    /\ nextReq' = nextReq + n
    /\ StartNextFrom(enqueue(download_queue, Ids(nextReq, n)))
    /\ UNCHANGED <<maxThreadCount, retv, outcome, mainQ, headDelivered, delivered,
                   dropped, stopCalled, budget, cleanup_called, error_message>>

\* update_settings / set_concurrent_downloads(limit)
set_concurrent_downloads(limit) ==
    /\ maxThreadCount' = EffectiveLimit(limit)
    /\ UNCHANGED <<download_queue, activeThreads, cancellation_event, nextReq, pc, retv,
                   outcome, mainQ, headDelivered, delivered, started, dropped,
                   stopCalled, budget, cleanup_called, error_message>>

\* stop_all_downloads
stop_all_downloads ==
    /\ cancellation_event' = stop_flag(cancellation_event)
    /\ download_queue' = stop_queue(download_queue)
    /\ dropped' = dropped \cup Range(download_queue)
    /\ stopCalled' = TRUE
    /\ UNCHANGED <<maxThreadCount, activeThreads, nextReq, pc, retv, outcome, mainQ,
                   headDelivered, delivered, started, budget, cleanup_called, error_message>>

\* the first slot of the oldest posted signal: manager.download_finished /
\* download_error / download_cancelled is emitted to the presentation layer
DeliverOutcome ==
    /\ mainQ # <<>>
    /\ ~headDelivered
    /\ delivered' = [delivered EXCEPT ![Head(mainQ).url] = @ + 1]
    /\ headDelivered' = TRUE
    /\ UNCHANGED <<download_queue, maxThreadCount, activeThreads, cancellation_event,
                   nextReq, pc, retv, outcome, mainQ, started, dropped, stopCalled, budget, cleanup_called, error_message>>

\* the second slot: _start_next_download, triggered by the completion
OnCompletionStartNext ==
    /\ mainQ # <<>>
    /\ headDelivered
    /\ mainQ' = Tail(mainQ)
    /\ headDelivered' = FALSE
    /\ StartNextFrom(download_queue)
    /\ UNCHANGED <<maxThreadCount, cancellation_event, nextReq, retv, outcome,
                   delivered, dropped, stopCalled, budget, cleanup_called, error_message>>

\* --------------------------------------------------- pool-thread actions
\* run(): the check before starting (checkpoint 1)
WorkerBegin(r) ==
    /\ pc[r] = "ready"
    /\ IF Checkpoint1(cancellation_event)
       THEN /\ outcome' = [outcome EXCEPT ![r] = "cancelled"]
            /\ cleanup_called' = [cleanup_called EXCEPT ![r] = TRUE]
            /\ pc' = [pc EXCEPT ![r] = "decided"]
       ELSE /\ pc' = [pc EXCEPT ![r] = "call"]
            /\ UNCHANGED <<outcome, cleanup_called>>
    /\ UNCHANGED <<download_queue, maxThreadCount, activeThreads, cancellation_event,
                   nextReq, retv, mainQ, headDelivered, delivered, started, dropped,
                   stopCalled, budget, error_message>>

\* progress_hook raising during the transfer (checkpoint 2): download_video
\* catches the exception and returns a failure.  A tick with the flag unset
\* only posts a progress notification and changes none of these variables.
HookAborts(r) ==
    /\ pc[r] = "call"
    /\ cancellation_event
    /\ pc' = [pc EXCEPT ![r] = "ret"]
    /\ retv' = [retv EXCEPT ![r] = DownloadFail]
    /\ UNCHANGED <<download_queue, maxThreadCount, activeThreads, cancellation_event,
                   nextReq, outcome, mainQ, headDelivered, delivered, started, dropped,
                   stopCalled, budget, cleanup_called, error_message>>

\* download_video returns on its own (success or failure)
CallReturns(r, ret) ==
    /\ pc[r] = "call"
    /\ pc' = [pc EXCEPT ![r] = "ret"]
    /\ retv' = [retv EXCEPT ![r] = ret]
    /\ UNCHANGED <<download_queue, maxThreadCount, activeThreads, cancellation_event,
                   nextReq, outcome, mainQ, headDelivered, delivered, started, dropped,
                   stopCalled, budget, cleanup_called, error_message>>

\* run() after the call: unpack, checkpoint 3 or the except handler
AfterCall(r) ==
    /\ pc[r] = "ret"
    /\ outcome' = [outcome EXCEPT ![r] = AfterCallOutcome(retv[r], cancellation_event)]
    /\ cleanup_called' =
          [cleanup_called EXCEPT ![r] = AfterCallCleanup(retv[r], cancellation_event)]
    /\ error_message' =
          [error_message EXCEPT ![r] = IF outcome'[r] = "error"
                                       THEN AfterCallMessage(retv[r]) ELSE None]
    /\ pc' = [pc EXCEPT ![r] = "decided"]
    /\ UNCHANGED <<download_queue, maxThreadCount, activeThreads, cancellation_event,
                   nextReq, retv, mainQ, headDelivered, delivered, started, dropped,
                   stopCalled, budget>>

\* (cleanup on the cancelled paths, then) signals.<outcome>.emit(video_url)
Emit(r) ==
    /\ pc[r] = "decided"
    /\ mainQ' = mainQ \o EmitSignals(r, outcome[r])
    /\ pc' = [pc EXCEPT ![r] = "emitted"]
    /\ UNCHANGED <<download_queue, maxThreadCount, activeThreads, cancellation_event,
                   nextReq, retv, outcome, headDelivered, delivered, started, dropped,
                   stopCalled, budget, cleanup_called, error_message>>

\* run() has returned: the pool stops counting the thread as active
ThreadRelease(r) ==
    /\ pc[r] = "emitted"
    /\ activeThreads' = activeThreads - 1
    /\ pc' = [pc EXCEPT ![r] = "done"]
    /\ UNCHANGED <<download_queue, maxThreadCount, cancellation_event, nextReq, retv,
                   outcome, mainQ, headDelivered, delivered, started, dropped,
                   stopCalled, budget, cleanup_called, error_message>>

\* ------------------------------------------------------------------ Next
Next ==
    \/ (\E n \in 0..(MaxReq + 1) : start_download_job(n)) /\ UNCHANGED extVars
    \/ (\E l \in LimitChoices : set_concurrent_downloads(l)) /\ UNCHANGED extVars
    \/ (stop_all_downloads) /\ UNCHANGED extVars
    \/ (DeliverOutcome) /\ UNCHANGED extVars
    \/ (OnCompletionStartNext) /\ UNCHANGED extVars
    \/ (\E r \in Req : WorkerBegin(r)) /\ UNCHANGED extVars
    \/ (\E r \in Req : HookAborts(r)) /\ UNCHANGED extVars
    \/ (\E r \in Req : \E ret \in DownloadVideoResults : CallReturns(r, ret)) /\ UNCHANGED extVars
    \/ (\E r \in Req : AfterCall(r)) /\ UNCHANGED extVars
    \/ (\E r \in Req : Emit(r)) /\ UNCHANGED extVars
    \/ (\E r \in Req : ThreadRelease(r)) /\ UNCHANGED extVars

Spec == Init /\ [][Next]_vars

\* ---------------------------------------------------------------- claims
Submitted == 1..(nextReq - 1)

\* tasks whose run() occupies a pool thread
ActiveTasks == {r \in Req : pc[r] \in Running}

\* no pool thread is busy and no posted slot is waiting on the main thread
Settled == activeThreads = 0 /\ mainQ = <<>>

\* terminal signals of r emitted so far: delivered, or posted and not yet delivered
Emitted(r) ==
    delivered[r]
    + Cardinality({i \in 1..Len(mainQ) : mainQ[i].url = r /\ ~(i = 1 /\ headDelivered)})

\* C1: with stop_all_downloads never called, once nothing is running and nothing
\* is pending on the main thread, the queue has drained and every submitted url
\* has had its terminal notification.
C1_AllReportedWhenSettled ==
    (~stopCalled /\ Settled)
        => (download_queue = <<>> /\ \A r \in Submitted : delivered[r] = 1)

\* C2 as claimed: in every state the active tasks number at most the configured limit.
C2_CapAlways == Cardinality(ActiveTasks) <= maxThreadCount

\* C2 amended: whenever the number of active tasks grows, it stays within the
\* limit configured at that moment; the pool's count is the number of active tasks.
C2_CapAtStart ==
    /\ [](activeThreads = Cardinality(ActiveTasks))
    /\ [][Cardinality(ActiveTasks') > Cardinality(ActiveTasks)
            => Cardinality(ActiveTasks') <= maxThreadCount']_vars

C2_Witness ==
    /\ download_queue # <<>>
    /\ Cardinality(ActiveTasks) = maxThreadCount
    /\ \E r \in Req : pc[r] = "call"

\* C3: requests are started in submission order (what is still queued comes
\* after everything started, in order), and with limit 1 a start takes exactly
\* one request and only when no task is active.
Increasing(s) == \A i, j \in 1..Len(s) : i < j => s[i] < s[j]

C3_FifoStart ==
    /\ [](Increasing(started \o download_queue))
    /\ [][(started' # started /\ maxThreadCount = 1)
            => (Len(started') = Len(started) + 1 /\ ActiveTasks = {})]_vars

C3_Witness ==
    /\ started = <<1, 2>>
    /\ maxThreadCount = 1
    /\ pc[1] = "done"
    /\ pc[2] = "ready"

\* C4 as claimed: once everything has drained, every submitted request has been
\* reported exactly once.
C4_EverySubmittedReported ==
    (Settled /\ download_queue = <<>>) => \A r \in Submitted : delivered[r] = 1

\* C4 amended: a request whose run() has emitted has exactly one terminal
\* signal, of the kind run() chose; before that, and for a request never
\* started, there is none; no request is ever delivered twice.
C4_ExactlyOncePerRun ==
    \A r \in Req :
        /\ Emitted(r) = (IF pc[r] \in {"emitted", "done"} THEN 1 ELSE 0)
        /\ delivered[r] <= 1
        /\ \A i \in 1..Len(mainQ) : mainQ[i].url = r => mainQ[i].kind = outcome[r]
        /\ pc[r] \in {"decided", "emitted", "done"}
              <=> outcome[r] \in {"finished", "error", "cancelled"}

C4_Witness ==
    /\ Settled
    /\ \E r \in Req : pc[r] = "done" /\ delivered[r] = 1 /\ outcome[r] = "cancelled"
    /\ dropped # {}

\* C5 as claimed: while the flag set by a stop made before any outcome was
\* reported is still set, no task that has yet to report is bound for an
\* outcome other than Cancelled.
C5_StopCancelsActive ==
    (cancellation_event /\ \A r \in Req : delivered[r] = 0)
        => \A r \in Req : pc[r] \in Unreported => outcome[r] \in {"none", "cancelled"}

\* C5 amended: a task ends Cancelled exactly when the flag is set at its
\* deciding check (the check before starting, or the check made once the
\* external call has returned); a task bound for Cancelled was decided so.
C5_CancelledIffFlagAtCheck ==
    [][\A r \in Req :
          (pc[r] \in {"ready", "ret"} /\ pc'[r] = "decided")
              => (outcome'[r] = "cancelled" <=> cancellation_event)]_vars

C5_Witness ==
    /\ stopCalled
    /\ cancellation_event
    /\ \E r \in Req : retv[r] # NoReturn /\ outcome[r] = "cancelled" /\ delivered[r] = 1

\* C6: a request that was in the queue at a stop is never started and never
\* reports; once everything has drained, the outcomes delivered number the
\* requests submitted minus those dropped.
C6_DroppedNeverReport ==
    /\ \A r \in dropped :
          /\ pc[r] = "none"
          /\ outcome[r] = "none"
          /\ Emitted(r) = 0
          /\ r \notin Range(started)
          /\ r \notin Range(download_queue)
    /\ (Settled /\ download_queue = <<>>)
          => SumOver(delivered, Req) = Cardinality(Submitted) - Cardinality(dropped)

C6_Witness ==
    /\ Settled
    /\ download_queue = <<>>
    /\ Cardinality(dropped) = 1
    /\ SumOver(delivered, Req) = 1

\* C7: is_idle() is true exactly when the queue is empty and no task is
\* active, and it is false while any submitted request is still queued or running.
C7_IdleIff ==
    /\ is_idle <=> (download_queue = <<>> /\ ActiveTasks = {})
    /\ (\E r \in Submitted : r \in Range(download_queue) \/ pc[r] \in Running) => ~is_idle

C7_Witness ==
    /\ is_idle
    /\ \A r \in 1..MaxReq : pc[r] = "done"

\* C8 as claimed: a stop made while idle changes neither the queue, nor the
\* flag, nor the active set, nor the limit.
C8_StopIdleNoOp ==
    [][(stop_all_downloads /\ is_idle)
          => UNCHANGED <<download_queue, cancellation_event, activeThreads,
                         maxThreadCount, pc>>]_vars

\* C8 amended: a second stop right after a stop changes nothing, and a stop
\* made while idle leaves the queue, the active set and the limit as they were
\* (it does set the flag).
C8_StopIdempotent ==
    [][stop_all_downloads
          => /\ stop_queue(download_queue') = download_queue'
             /\ stop_flag(cancellation_event') = cancellation_event'
             /\ UNCHANGED <<activeThreads, maxThreadCount, pc>>
             /\ (is_idle => UNCHANGED download_queue)]_vars

C8_Witness ==
    /\ stopCalled
    /\ cancellation_event
    /\ download_queue = <<>>
    /\ dropped # {}
    /\ ActiveTasks # {}

\* C9: when the limit is raised while the pool is full and requests are
\* queued, queued requests are started by that very call.
C9_RaiseStartsQueued ==
    [][(/\ maxThreadCount' > maxThreadCount
        /\ download_queue # <<>>
        /\ activeThreads = maxThreadCount
        /\ ActiveTasks # {})
          => Len(download_queue') < Len(download_queue)]_vars

\* C10: a failed task sets no flag, and, stop never called, once nothing is
\* running or pending every other request has reached its own outcome.
C10_FailureIndependent ==
    (/\ ~stopCalled
     /\ Settled
     /\ \E r \in Req : outcome[r] = "error" /\ delivered[r] = 1)
        => (/\ ~cancellation_event
            /\ \A r \in Submitted : delivered[r] = 1)

\* C25: there is no state in which requests are queued, the flag is unset, no
\* task is active and no completion slot is pending on the main thread.
C25_NeverStalls ==
    ~(/\ download_queue # <<>>
      /\ ~cancellation_event
      /\ ActiveTasks = {}
      /\ activeThreads = 0
      /\ mainQ = <<>>)

\* C26: a task that finds the flag set as it begins to run is decided
\* Cancelled there and then, without download_video being called; from then on
\* it never enters the call, gets no return value and keeps that outcome, and
\* it emits and is delivered exactly one notification, a cancelled one.
DecidedAtCheckpoint1(r) == outcome[r] = "cancelled" /\ retv[r] = NoReturn

C26_Checkpoint1 ==
    /\ [][\A r \in Req :
             /\ (pc[r] = "ready" /\ pc'[r] # "ready" /\ cancellation_event)
                   => (pc'[r] = "decided" /\ DecidedAtCheckpoint1(r)')
             /\ DecidedAtCheckpoint1(r)
                   => /\ DecidedAtCheckpoint1(r)'
                      /\ pc'[r] \in {"decided", "emitted", "done"}]_vars
    /\ [](\A r \in Req :
             DecidedAtCheckpoint1(r)
                 => /\ pc[r] \in {"decided", "emitted", "done"}
                    /\ Emitted(r) = (IF pc[r] = "decided" THEN 0 ELSE 1)
                    /\ delivered[r] <= 1
                    /\ \A i \in 1..Len(mainQ) :
                          mainQ[i].url = r => mainQ[i].kind = "cancelled")

C26_Witness ==
    \E r \in Req :
        /\ DecidedAtCheckpoint1(r)
        /\ pc[r] = "done"
        /\ delivered[r] = 1
        /\ ~cancellation_event

\* C27: when run() goes on after download_video has returned, with a success
\* or with a failure, and the flag is set at the check it then makes, the task
\* is decided Cancelled, not Completed and not Failed; it is decided Completed
\* only with the flag unset at that check and a success returned; and what is
\* emitted for the task is the outcome decided there.
C27_Checkpoint3 ==
    /\ [][\A r \in Req :
             (pc[r] = "ret" /\ pc'[r] # "ret")
                 => /\ retv[r] \in DownloadVideoResults
                    /\ pc'[r] = "decided"
                    /\ cancellation_event => outcome'[r] = "cancelled"
                    /\ outcome'[r] = "finished"
                          => (~cancellation_event /\ retv[r][1] = TRUE)]_vars
    /\ [](\A r \in Req :
             (retv[r] # NoReturn /\ outcome[r] = "cancelled")
                 => \A i \in 1..Len(mainQ) :
                       mainQ[i].url = r => mainQ[i].kind = "cancelled")

C27_Witness ==
    \E r \in Req :
        /\ outcome[r] = "cancelled"
        /\ retv[r] # NoReturn
        /\ retv[r][1] = TRUE
        /\ delivered[r] = 1
        /\ \E q \in Req : /\ outcome[q] = "cancelled"
                           /\ retv[q] # NoReturn
                           /\ retv[q][1] = FALSE

\* C28: when run() goes on after a download_video that failed, or after the
\* exception raised on its return, with the flag unset, the task is decided
\* Failed with a message and _cleanup_incomplete_files is not called; with the
\* flag set it calls the cleanup and is decided Cancelled, with no error
\* message; a task decided Failed emits exactly one notification, an error,
\* and never has called the cleanup.
C28_ErrorOrCancelled ==
    /\ [][\A r \in Req :
             (pc[r] = "ret" /\ pc'[r] # "ret" /\ (retv[r][1] = FALSE \/ ~UnpackOk(retv[r])))
                 => IF cancellation_event
                    THEN /\ outcome'[r] = "cancelled"
                         /\ cleanup_called'[r]
                         /\ error_message'[r] = None
                    ELSE /\ outcome'[r] = "error"
                         /\ ~cleanup_called'[r]
                         /\ error_message'[r] # None]_vars
    /\ [](\A r \in Req :
             /\ outcome[r] = "error"
                   => /\ ~cleanup_called[r]
                      /\ error_message[r] # None
                      /\ Emitted(r) = (IF pc[r] = "decided" THEN 0 ELSE 1)
                      /\ delivered[r] <= 1
                      /\ \A i \in 1..Len(mainQ) :
                            mainQ[i].url = r => mainQ[i].kind = "error"
             /\ outcome[r] = "cancelled" => (cleanup_called[r] /\ error_message[r] = None))

C28_Witness ==
    /\ \E r \in Req :
          /\ outcome[r] = "error"
          /\ retv[r][1] = FALSE
          /\ delivered[r] = 1
          /\ ~cleanup_called[r]
    /\ \E q \in Req :
          /\ outcome[q] = "cancelled"
          /\ retv[q] # NoReturn
          /\ retv[q][1] = FALSE
          /\ cleanup_called[q]
          /\ delivered[q] = 1

\* C29: a task whose download_video returned success and that was not decided
\* Cancelled is decided Completed: what it emits is one finished notification
\* for its url, and no error notification.
C29_SuccessCompletes ==
    \A r \in Req :
        (/\ pc[r] \in {"decided", "emitted", "done"}
         /\ outcome[r] # "cancelled"
         /\ retv[r][1] = TRUE)
            => /\ outcome[r] = "finished"
               /\ \A i \in 1..Len(mainQ) : mainQ[i].url = r => mainQ[i].kind = "finished"

\* ------------------------------------------- submitting into a busy queue
\* the manager as in Spec, over runs that submit one request more, so that a
\* submission can find requests of an earlier one still queued
QueueInit ==
    /\ ManagerInit
    /\ budget = MaxReq + 1
    /\ ExtInit

QueueSpec == QueueInit /\ [][Next]_vars

\* C11: a submission R2 made while earlier requests are still queued leaves
\* started-then-queued equal to what it was followed by R2 in order (nothing
\* dropped, replaced or reordered; what the call starts is taken from the head),
\* and no request is started while an earlier one is still queued.
C11_SubmitAppends ==
    /\ [][(nextReq' > nextReq /\ download_queue # <<>>)
            => LET R2 == Ids(nextReq, nextReq' - nextReq)
                   all == download_queue \o R2
                   k == Len(started') - Len(started)
               IN /\ k \in 0..Len(all)
                  /\ started' = started \o SubSeq(all, 1, k)
                  /\ download_queue' = SubSeq(all, k + 1, Len(all))]_vars
    /\ [](\A s \in Range(started) : \A q \in Range(download_queue) : s < q)

C11_Witness ==
    /\ nextReq = MaxReq + 2
    /\ started = <<1>>
    /\ Len(download_queue) = MaxReq
    /\ download_queue[Len(download_queue)] = MaxReq + 1
    /\ delivered[1] = 1

\* ------------------------------------------ the parameters of a download
\* video_resolution values a caller passes
Resolutions == {"best", "720p"}

\* settings objects update_settings may be handed
SettingsChoices ==
    [concurrent_downloads_limit : LimitChoices,
     download_folder_path : {"dirA", "dirB"},
     facebook_cookies_path : {""},
     bilibili_cookies_path : {"", "bili.txt"},
     xiaohongshu_cookies_path : {""}]

\* the urls submitted are of one platform
UrlOf(r) == <<"bilibili.com">>

\* the arguments of DownloadWorker(...) in _start_next_download for request r:
\* the folder of the current settings, the manager's current resolution, and
\* the cookie path _get_cookies_path_for_url reads from the current settings
WorkerArgs(r, res, settings) ==
    [video_resolution |-> res,
     download_folder_path |-> settings.download_folder_path,
     cookies_file |-> get_cookies_path_for_url(UrlOf(r), settings)]

\* the requests a step dequeues and starts
NewlyStarted == {started'[i] : i \in (Len(started) + 1)..Len(started')}

\* start_download_job(video_urls, video_resolution): the resolution is stored
\* on the manager before the urls are appended and the loop runs
start_download_job_res(n, res) ==
    /\ start_download_job(n)
    /\ video_resolution' = res
    /\ enqueuedWith' = [r \in Req |->
                          IF r \notin Range(download_queue') THEN <<>>
                          ELSE IF r \in Range(Ids(nextReq, n))
                               THEN <<WorkerArgs(r, res, app_settings)>>
                               ELSE enqueuedWith[r]]
    /\ UNCHANGED app_settings

\* update_settings(settings)
update_settings(settings) ==
    /\ app_settings' = settings
    /\ set_concurrent_downloads(settings.concurrent_downloads_limit)
    /\ UNCHANGED <<video_resolution, enqueuedWith>>

\* stop_all_downloads: the queued requests are gone
stop_all_downloads_queued ==
    /\ stop_all_downloads
    /\ enqueuedWith' = [r \in Req |-> <<>>]
    /\ UNCHANGED <<video_resolution, app_settings>>

\* _start_next_download as the completion slot
OnCompletionStartNext_queued ==
    /\ OnCompletionStartNext
    /\ enqueuedWith' = [r \in Req |-> IF r \in Range(download_queue')
                                      THEN enqueuedWith[r] ELSE <<>>]
    /\ UNCHANGED <<video_resolution, app_settings>>

ParamInit ==
    /\ ManagerInit
    /\ budget = MaxReq
    /\ ExtInit
    /\ maxThreadCount = EffectiveLimit(app_settings.concurrent_downloads_limit)

ParamNext ==
    \/ (\E n \in 0..MaxReq : \E res \in Resolutions : start_download_job_res(n, res))
           /\ UNCHANGED notPrmVars
    \/ (\E st \in SettingsChoices : update_settings(st)) /\ UNCHANGED notPrmVars
    \/ stop_all_downloads_queued /\ UNCHANGED notPrmVars
    \/ DeliverOutcome /\ UNCHANGED extVars
    \/ OnCompletionStartNext_queued /\ UNCHANGED notPrmVars
    \/ (\E r \in Req : WorkerBegin(r)) /\ UNCHANGED extVars
    \/ (\E r \in Req : HookAborts(r)) /\ UNCHANGED extVars
    \/ (\E r \in Req : \E ret \in DownloadVideoResults : CallReturns(r, ret))
           /\ UNCHANGED extVars
    \/ (\E r \in Req : AfterCall(r)) /\ UNCHANGED extVars
    \/ (\E r \in Req : Emit(r)) /\ UNCHANGED extVars
    \/ (\E r \in Req : ThreadRelease(r)) /\ UNCHANGED extVars

ParamSpec == ParamInit /\ [][ParamNext]_vars

\* C13: every request that is started after having waited in the queue is
\* started with the resolution, the folder and the cookie path that were in
\* force when it was enqueued.
C13_ParamsFixedAtEnqueue ==
    [][\A r \in NewlyStarted :
          enqueuedWith[r] # <<>>
              => <<WorkerArgs(r, video_resolution', app_settings')>> = enqueuedWith[r]]_vars

\* --------------------------------------------------------------- history
\* src/nexus_downloader/services/history_service.py and MainWindow._record_to_history

\* the status string each handler passes to _record_to_history
StatusOf(kind) ==
    CASE kind = "finished" -> "completed"
      [] kind = "error" -> "failed"
      [] OTHER -> "cancelled"

Statuses == {"completed", "failed", "cancelled"}

\* a HistoryEntry, by the two fields the outcome decides
HistoryEntry(u, status) == [url |-> u, status |-> status]

\* `self._history.insert(0, entry)`
insert_back(h, e) == Append(h, e)
insert_front(h, e) == <<e>> \o h

\* HistoryService.add_entry: insert, then save_history; when the write fails
\* (save_ok false: open() raises OSError) the file stays as it was and the
\* OSError is raised to the caller, the entry already being in _history
add_entry(entry, save_ok) ==
    /\ history' = insert_front(history, entry)
    /\ history_file' = IF save_ok THEN history' ELSE history_file
    /\ added' = Append(added, entry)

\* HistoryService.get_all
get_all == history

\* _record_to_history lets an exception out to the handler that called it:
\* never, the body after the row lookup is inside `try ... except Exception`
record_escapes(save_ok) == FALSE

\* MainWindow._record_to_history(video_url, status): nothing without a row
record_to_history(u, status, save_ok) ==
    IF u \notin download_table
    THEN UNCHANGED <<history, history_file, added>>
    ELSE add_entry(HistoryEntry(u, status), save_ok)

\* ------------------------------------------------------------ MainWindow
\* src/nexus_downloader/ui/main_window.py: the batch counters, the two
\* buttons and the completion summary, driven by the manager's signals.

\* on_download_finished: `_batch_success_count += 1`
SuccessIncrement(kind) == IF kind = "finished" THEN 1 ELSE 0

\* on_download_error, on_download_cancelled: `_batch_fail_count += 1`
FailIncrement_errorsonly(kind) == IF kind = "error" THEN 1 ELSE 0
FailIncrement(kind) == IF kind \in {"error", "cancelled"} THEN 1 ELSE 0

\* _show_completion_notification: the message handed to the tray icon
AllSucceeded == <<"All downloads completed successfully.">>

SummaryMessage(success, fail) ==
    IF fail = 0 THEN AllSucceeded ELSE <<"Successful", success, "Failed", fail>>

\* on_download_finished / on_download_error / on_download_cancelled, for an
\* outcome of the given kind, with idle the answer of download_manager.is_idle():
\* count, show the progress on the button when a batch is counted, then
\* _check_and_enable_button
counted(kind, idle) ==
    /\ download_completed_count' = download_completed_count + 1
    /\ batch_success_count' = batch_success_count + SuccessIncrement(kind)
    /\ batch_fail_count' = batch_fail_count + FailIncrement(kind)
    /\ UNCHANGED download_queue_total
    /\ download_button_enabled' =
          (IF idle THEN TRUE
           ELSE IF download_queue_total > 0 THEN FALSE ELSE download_button_enabled)
    /\ download_button_text' =
          (IF idle THEN ButtonText(FALSE, 0, 0)
           ELSE IF download_queue_total > 0
                THEN ButtonText(TRUE, download_completed_count', download_queue_total)
                ELSE download_button_text)
    /\ stop_button_enabled' = (IF idle THEN FALSE ELSE stop_button_enabled)
    /\ IF idle /\ download_queue_total > 0
       THEN /\ notification' = SummaryMessage(batch_success_count', batch_fail_count')
            /\ shown' = shown + 1
       ELSE /\ notification' = <<>>
            /\ shown' = shown

\* the handler for url u: the row's status, _record_to_history, then the
\* counting above; an exception out of _record_to_history would end the
\* handler before the counting
on_download_outcome(u, kind, idle, save_ok) ==
    /\ record_to_history(u, StatusOf(kind), save_ok)
    /\ UNCHANGED download_table
    /\ IF u \in download_table /\ record_escapes(save_ok)
       THEN UNCHANGED uiVars
       ELSE counted(kind, idle)

\* manager.download_finished / download_error / download_cancelled reaches the
\* window's handler inside the first slot of the worker's signal
DeliverToWindow ==
    /\ DeliverOutcome
    /\ \E save_ok \in BOOLEAN :
          on_download_outcome(Head(mainQ).url, Head(mainQ).kind, is_idle, save_ok)

\* start_download with n >= 1 rows checked (with none checked nothing happens);
\* the Download button has to be enabled to be clicked; the rows checked are
\* rows of urls fetched into the table and not submitted before
start_download(n) ==
    /\ download_button_enabled
    /\ n >= 1
    /\ download_table' = download_table \cup Range(Ids(nextReq, n))
    /\ UNCHANGED <<history, history_file, added>>
    /\ download_queue_total' = n
    /\ download_completed_count' = 0
    /\ batch_success_count' = 0
    /\ batch_fail_count' = 0
    /\ download_button_enabled' = FALSE
    /\ download_button_text' = ButtonText(TRUE, 0, n)
    /\ stop_button_enabled' = TRUE
    /\ notification' = <<>>
    /\ shown' = 0
    /\ start_download_job(n)

\* stop_download, behind the Stop Download button
stop_download ==
    /\ stop_button_enabled
    /\ stop_button_enabled' = FALSE
    /\ stop_all_downloads
    /\ UNCHANGED <<counters, download_button_enabled, download_button_text, notification,
                   shown, recVars>>

\* _clear_all_downloads; when downloads are in progress the user confirms
\* (answering No leaves everything as it is)
clear_all_downloads ==
    /\ IF is_idle
       THEN UNCHANGED <<mgrVars, stop_button_enabled>>
       ELSE /\ stop_all_downloads
            /\ stop_button_enabled' = FALSE
    /\ download_queue_total' = 0
    /\ download_completed_count' = 0
    /\ batch_success_count' = 0
    /\ batch_fail_count' = 0
    /\ download_button_enabled' = TRUE
    /\ download_button_text' = ButtonText(FALSE, 0, 0)
    /\ download_table' = {}
    /\ UNCHANGED <<notification, shown, history, history_file, added>>

WindowSpecInit ==
    /\ ManagerInit
    /\ budget = MaxReq
    /\ ExtInit

WindowNext ==
    \/ (\E n \in 1..MaxReq : start_download(n)) /\ UNCHANGED <<notWindowVars, tally>>
    \/ stop_download /\ UNCHANGED <<notWindowVars, tally>>
    \/ clear_all_downloads /\ UNCHANGED <<notWindowVars, tally>>
    \/ (\E l \in LimitChoices : set_concurrent_downloads(l)) /\ UNCHANGED extVars
    \/ DeliverToWindow /\ UNCHANGED <<notWindowVars, tally>>
    \/ OnCompletionStartNext /\ UNCHANGED extVars
    \/ (\E r \in Req : WorkerBegin(r)) /\ UNCHANGED extVars
    \/ (\E r \in Req : HookAborts(r)) /\ UNCHANGED extVars
    \/ (\E r \in Req : \E ret \in DownloadVideoResults : CallReturns(r, ret))
           /\ UNCHANGED extVars
    \/ (\E r \in Req : AfterCall(r)) /\ UNCHANGED extVars
    \/ (\E r \in Req : Emit(r)) /\ UNCHANGED extVars
    \/ (\E r \in Req : ThreadRelease(r)) /\ UNCHANGED extVars

WindowSpec == WindowSpecInit /\ [][WindowNext]_vars

\* C12: a submission made while the manager is not idle leaves the counted
\* outcomes as they are (completed, success and fail keep their values and the
\* total does not shrink); counters are reset only by a submission made while idle.
C12_NoResetWhileBusy ==
    [][((\E n \in 1..MaxReq : start_download(n)) /\ ~is_idle)
          => /\ UNCHANGED <<download_completed_count, batch_success_count,
                            batch_fail_count>>
             /\ download_queue_total' >= download_queue_total]_vars

\* C14: the outcomes counted never exceed the batch total, and every counted
\* outcome is counted as a success or as a failure.
C14_ProgressBound ==
    /\ batch_success_count + batch_fail_count = download_completed_count
    /\ download_completed_count <= download_queue_total

\* C15: the summary is shown at most once per batch; it is shown only by a
\* handler call that finds the manager idle with a nonzero total and that
\* tallies the last outstanding outcome (nothing active, nothing queued, no
\* other outcome still to be delivered); and once the manager is idle and
\* every outcome of a counted batch has been handled, it has been shown.
C15_SummaryOneShot ==
    [][/\ shown' <= 1
       /\ shown' > shown
            => /\ is_idle
               /\ ActiveTasks = {}
               /\ download_queue_total > 0
               /\ Len(mainQ) = 1
       /\ (/\ is_idle'
           /\ mainQ' = <<>>
           /\ download_queue_total' > 0
           /\ download_completed_count' > 0) => shown' = 1]_vars

\* C22: a handler call whose history write fails (the entry is in the list, the
\* file is as it was) still counts the outcome,
\* still makes the idle check and leaves the completion slot
\* (_start_next_download) to run after it; and, stop never called, once a run
\* in which the latest history write failed has nothing running and nothing
\* pending, the queue has drained and every submitted request has been reported.
C22_HistoryFailureContained ==
    [][/\ (history' # history /\ history_file' = history_file)
          => /\ download_completed_count' = download_completed_count + 1
             /\ batch_success_count' + batch_fail_count'
                    = batch_success_count + batch_fail_count + 1
             /\ is_idle => (download_button_enabled' /\ ~stop_button_enabled')
             /\ headDelivered' /\ mainQ' = mainQ
       /\ (history' # history_file' /\ Settled' /\ ~stopCalled')
          => (download_queue' = <<>> /\ \A r \in Submitted' : delivered'[r] = 1)]_vars

\* C23: every outcome delivered to the window has exactly one history entry
\* for its url, with the status of the outcome (finished: completed, error:
\* failed, cancelled: cancelled).
C23_OutcomeRecorded ==
    \A r \in Req :
        delivered[r] = 1
            => /\ Cardinality({i \in 1..Len(history) : history[i].url = r}) = 1
               /\ \E i \in 1..Len(history) :
                     history[i] = HistoryEntry(r, StatusOf(outcome[r]))

\* ------------------------------------- the window's handlers driven directly
\* The three outcome handlers called in any order on a window whose batch
\* total has been set, the manager's is_idle() answering either way (as
\* src/tests/test_notifications.py drives them).
TallyInit ==
    /\ ManagerInit
    /\ budget = MaxReq
    /\ ParamsInit
    /\ CookieIdle
    /\ FetchInit
    /\ CleanupIdle
    /\ HookInit
    /\ MoreInit
    /\ download_table = {1}
    /\ history = <<>>
    /\ history_file = <<>>
    /\ added = <<>>
    /\ download_queue_total \in 0..MaxOutcomes
    /\ download_completed_count = 0
    /\ batch_success_count = 0
    /\ batch_fail_count = 0
    /\ download_button_enabled = FALSE
    /\ download_button_text = ButtonText(TRUE, 0, download_queue_total)
    /\ stop_button_enabled = TRUE
    /\ notification = <<>>
    /\ shown = 0
    /\ tally = [k \in Kinds |-> 0]

\* the urls the handlers are called with: one with a row, one without
TallyUrls == {1, 2}

\* the tally kept beside a handler call, and the rest of the program untouched
Tallied(kind) ==
    /\ download_completed_count < MaxOutcomes
    /\ tally' = [tally EXCEPT ![kind] = @ + 1]
    /\ UNCHANGED <<mgrVars, notWindowVars>>

on_download_finished(u, idle, save_ok) ==
    /\ on_download_outcome(u, "finished", idle, save_ok)
    /\ Tallied("finished")

on_download_error(u, idle, save_ok) ==
    /\ on_download_outcome(u, "error", idle, save_ok)
    /\ Tallied("error")

on_download_cancelled(u, idle, save_ok) ==
    /\ on_download_outcome(u, "cancelled", idle, save_ok)
    /\ Tallied("cancelled")

TallyNext ==
    \/ \E u \in TallyUrls, idle \in BOOLEAN, save_ok \in BOOLEAN :
            on_download_finished(u, idle, save_ok)
    \/ \E u \in TallyUrls, idle \in BOOLEAN, save_ok \in BOOLEAN :
            on_download_error(u, idle, save_ok)
    \/ \E u \in TallyUrls, idle \in BOOLEAN, save_ok \in BOOLEAN :
            on_download_cancelled(u, idle, save_ok)

TallySpec == TallyInit /\ [][TallyNext]_vars

\* C16: after any sequence of outcomes the success count is the number of
\* Completed outcomes and the failed count the number of Failed plus the number
\* of Cancelled ones; a summary saying that all succeeded is shown only with a
\* failed count of 0, and otherwise the summary carries the two counts.
C16_TallyRule ==
    /\ batch_success_count = tally["finished"]
    /\ batch_fail_count = tally["error"] + tally["cancelled"]
    /\ download_completed_count = batch_success_count + batch_fail_count
    /\ notification = AllSucceeded => batch_fail_count = 0
    /\ (notification # <<>> /\ batch_fail_count > 0)
          => notification = <<"Successful", batch_success_count,
                              "Failed", batch_fail_count>>

C16_Witness ==
    /\ tally["finished"] = 1
    /\ tally["error"] = 1
    /\ tally["cancelled"] = 1
    /\ notification = <<"Successful", 1, "Failed", 2>>

\* ------------------------------------------------ the cookie lookup alone
\* _get_cookies_path_for_url called once, on every url of Urls, under settings
\* with each cookie path set or left empty
CookieSettings ==
    [concurrent_downloads_limit : {DefaultSettings.concurrent_downloads_limit},
     download_folder_path : {DefaultSettings.download_folder_path},
     facebook_cookies_path : {"", "fb.txt"},
     bilibili_cookies_path : {"", "bili.txt"},
     xiaohongshu_cookies_path : {"", "xhs.txt"}]

CookieInit ==
    /\ ManagerInit
    /\ budget = MaxReq
    /\ WindowInit
    /\ FetchInit
    /\ RecInit
    /\ CleanupIdle
    /\ HookInit
    /\ MoreInit
    /\ video_resolution = "best"
    /\ enqueuedWith = [r \in Req |-> <<>>]
    /\ app_settings \in CookieSettings
    /\ maxThreadCount = EffectiveLimit(app_settings.concurrent_downloads_limit)
    /\ url \in Urls
    /\ cookies_result = None

\* the call: the body reads the url and the settings and assigns nothing
call_get_cookies_path_for_url ==
    /\ cookies_result = None
    /\ cookies_result' = get_cookies_path_for_url(url, app_settings)
    /\ UNCHANGED <<mgrVars, prmVars, uiVars, tally, url, fetchVars, recVars, cleanupVars,
                   hookVars, moreVars>>

CookieNext == call_get_cookies_path_for_url

CookieSpec == CookieInit /\ [][CookieNext]_vars

\* the url names the domain, in whatever letter case
NamesDomain(u, d) == \E i \in 1..Len(u) : LowerPart(u[i]) = d

\* C19: the lookup returns the Bilibili path if the url names bilibili.com or
\* b23.tv in any letter case, else the Xiaohongshu path if it names
\* xiaohongshu.com or xhslink.com, else the Facebook path if it names
\* facebook.com or fb.watch, else the empty string; it always returns one of
\* these strings, and the call changes neither the settings nor anything else.
C19_CookieLookup ==
    /\ [](cookies_result # None
            => /\ cookies_result =
                    (IF NamesDomain(url, "bilibili.com") \/ NamesDomain(url, "b23.tv")
                     THEN app_settings.bilibili_cookies_path
                     ELSE IF NamesDomain(url, "xiaohongshu.com")
                             \/ NamesDomain(url, "xhslink.com")
                     THEN app_settings.xiaohongshu_cookies_path
                     ELSE IF NamesDomain(url, "facebook.com")
                             \/ NamesDomain(url, "fb.watch")
                     THEN app_settings.facebook_cookies_path
                     ELSE "")
               /\ cookies_result \in {"", app_settings.bilibili_cookies_path,
                                      app_settings.xiaohongshu_cookies_path,
                                      app_settings.facebook_cookies_path})
    /\ [][cookies_result' # cookies_result
            => UNCHANGED <<mgrVars, prmVars, uiVars, url>>]_vars

C19_Witness ==
    /\ url = <<"facebook.com", "BILIBILI.COM">>
    /\ app_settings.facebook_cookies_path = "fb.txt"
    /\ app_settings.bilibili_cookies_path = "bili.txt"
    /\ cookies_result = "bili.txt"

\* ------------------------------------------------------ the metadata fetch
\* the fixed messages of YtDlpService._format_error_message
BilibiliRegionMessage ==
    <<"This Bilibili video is not available in your region. You may need to use a VPN or proxy.">>
BilibiliDeletedMessage ==
    <<"This Bilibili video may have been deleted or is no longer available.">>
BilibiliAuthMessage ==
    <<"This Bilibili video or collection requires authentication. Please refer to the documentation for cookie setup.">>
BilibiliRateLimitMessage ==
    <<"Too many requests. Bilibili may be rate limiting. Please wait a few minutes and try again.">>
BilibiliEmptyMessage ==
    <<"The Bilibili collection or user space appears to be empty.">>
XhsNoFormatsMessage ==
    <<"This Xiaohongshu content could not be extracted. It may require authentication or is restricted.">>
XhsUnsupportedMessage ==
    <<"The Xiaohongshu URL is not supported or invalid. Please check the URL.">>
XhsNotFoundMessage ==
    <<"This Xiaohongshu content or user could not be found.">>
XhsDeniedMessage ==
    <<"Access denied. This Xiaohongshu content may be private or require authentication. Please refer to the documentation for cookie setup.">>
XhsEmptyMessage ==
    <<"The Xiaohongshu user profile appears to be empty.">>
NetworkPrefix ==
    <<"Failed to fetch video. Check your internet connection. Details: ">>
InvalidPrefix ==
    <<"Invalid or unavailable video URL. Details: ">>

\* the generic tail of _format_error_message
format_generic(error_msg, error_lower) ==
    IF Has("network", error_lower) \/ Has("connection", error_lower)
    THEN NetworkPrefix \o error_msg
    ELSE IF Has("invalid", error_lower) \/ Has("not found", error_lower)
    THEN InvalidPrefix \o error_msg
    ELSE error_msg

\* the Xiaohongshu block and what follows it
format_from_xiaohongshu(u, error_msg, error_lower) ==
    LET is_xiaohongshu == Has("xiaohongshu.com", u) \/ Has("xhslink.com", u)
    IN IF is_xiaohongshu /\ Has("no video formats found", error_lower)
       THEN XhsNoFormatsMessage
       ELSE IF is_xiaohongshu /\ Has("unsupported url", error_lower)
       THEN XhsUnsupportedMessage
       ELSE IF is_xiaohongshu /\ (Has("http error 404", error_lower)
                                    \/ Has("not found", error_lower))
       THEN XhsNotFoundMessage
       ELSE IF is_xiaohongshu /\ (Has("http error 403", error_lower)
                                    \/ Has("forbidden", error_lower))
       THEN XhsDeniedMessage
       ELSE IF is_xiaohongshu /\ Has("empty", error_lower) /\ Has("playlist", error_lower)
       THEN XhsEmptyMessage
       ELSE format_generic(error_msg, error_lower)

\* YtDlpService._format_error_message: the message is lowered, the url is not
format_error_message(u, error_msg) ==
    LET error_lower == lower(error_msg)
        is_bilibili == Has("bilibili.com", u) \/ Has("b23.tv", u)
    IN IF is_bilibili /\ (Has("geo-restrict", error_lower)
                            \/ Has("not available in your region", error_lower))
       THEN BilibiliRegionMessage
       ELSE IF is_bilibili /\ Has("deleted", error_lower)
       THEN BilibiliDeletedMessage
       ELSE IF is_bilibili /\ (Has("private", error_lower)
                                 \/ Has("members-only", error_lower))
       THEN BilibiliAuthMessage
       ELSE IF is_bilibili /\ (Has("too many requests", error_lower)
                                 \/ Has("412", error_lower))
       THEN BilibiliRateLimitMessage
       ELSE IF is_bilibili /\ Has("empty", error_lower) /\ Has("playlist", error_lower)
       THEN BilibiliEmptyMessage
       ELSE format_from_xiaohongshu(u, error_msg, error_lower)

\* what ydl.extract_info can do: a playlist of n entries, a single video, a
\* yt_dlp DownloadError carrying msg, or an exception of any other class
ResolveOutcomes ==
    [kind : {"entries"}, n : 0..MaxEntries, msg : {<<>>}]
        \cup [kind : {"single"}, n : {1}, msg : {<<>>}]
        \cup [kind : {"DownloadError"}, n : {0}, msg : Msgs]
        \cup [kind : {"Exception"}, n : {0}, msg : {<<>>}]

\* YtDlpService.get_video_info: videos is <<>> for None and <<n>> for a list
\* of n descriptors; error is <<>> for None; only DownloadError is caught
get_video_info(u, res) ==
    CASE res.kind = "entries" -> [raised |-> FALSE, videos |-> <<res.n>>, error |-> <<>>]
      [] res.kind = "single" -> [raised |-> FALSE, videos |-> <<1>>, error |-> <<>>]
      [] res.kind = "DownloadError" ->
            [raised |-> FALSE, videos |-> <<>>, error |-> format_error_message(u, res.msg)]
      [] OTHER -> [raised |-> TRUE, videos |-> <<>>, error |-> <<>>]

\* the slots connected to FetchWorker.finished, in connection order
\* (deleteLater is not modelled), and to FetchWorker.error
FinishedSlots == <<"quit", "fetch_finished">>
ErrorSlots == <<"fetch_error">>

Post(slots, videos, message) ==
    [i \in 1..Len(slots) |-> [slot |-> slots[i], videos |-> videos, message |-> message]]

\* DownloadManager.start_fetch_job
start_fetch_job(u) ==
    /\ fetch_pc = "idle"
    /\ fetch_url' = u
    /\ fetch_thread_running' = TRUE
    /\ fetch_pc' = "started"
    /\ UNCHANGED <<resolve_outcome, fetch_emitted, fetch_raised, fetchQ, fetch_reported>>

\* FetchWorker.run, in the fetch thread
FetchWorker_run(res) ==
    /\ fetch_pc = "started"
    /\ fetch_pc' = "ran"
    /\ resolve_outcome' = res
    /\ LET r == get_video_info(fetch_url, res)
       IN IF r.raised
          THEN /\ fetch_raised' = TRUE
               /\ UNCHANGED <<fetch_emitted, fetchQ>>
          ELSE IF r.error # <<>>
          THEN /\ fetch_emitted' = Append(fetch_emitted,
                        [sig |-> "error", videos |-> <<>>, message |-> r.error])
               /\ fetchQ' = fetchQ \o Post(ErrorSlots, <<>>, r.error)
               /\ UNCHANGED fetch_raised
          ELSE /\ fetch_emitted' = Append(fetch_emitted,
                        [sig |-> "finished", videos |-> r.videos, message |-> <<>>])
               /\ fetchQ' = fetchQ \o Post(FinishedSlots, r.videos, <<>>)
               /\ UNCHANGED fetch_raised
    /\ UNCHANGED <<fetch_url, fetch_thread_running, fetch_reported>>

\* fetch_thread.quit reaches the thread, whose event loop then ends
fetch_thread_quit ==
    /\ fetchQ # <<>>
    /\ Head(fetchQ).slot = "quit"
    /\ fetchQ' = Tail(fetchQ)
    /\ fetch_thread_running' = FALSE
    /\ UNCHANGED <<fetch_url, fetch_pc, resolve_outcome, fetch_emitted, fetch_raised,
                   fetch_reported>>

\* DownloadManager.fetch_finished is emitted to the window
fetch_finished ==
    /\ fetchQ # <<>>
    /\ Head(fetchQ).slot = "fetch_finished"
    /\ fetchQ' = Tail(fetchQ)
    /\ fetch_reported' = Append(fetch_reported,
            [sig |-> "finished", videos |-> Head(fetchQ).videos, message |-> <<>>])
    /\ UNCHANGED <<fetch_url, fetch_pc, resolve_outcome, fetch_emitted, fetch_raised,
                   fetch_thread_running>>

\* DownloadManager.fetch_error is emitted to the window
fetch_error ==
    /\ fetchQ # <<>>
    /\ Head(fetchQ).slot = "fetch_error"
    /\ fetchQ' = Tail(fetchQ)
    /\ fetch_reported' = Append(fetch_reported,
            [sig |-> "error", videos |-> <<>>, message |-> Head(fetchQ).message])
    /\ UNCHANGED <<fetch_url, fetch_pc, resolve_outcome, fetch_emitted, fetch_raised,
                   fetch_thread_running>>

notFetchVars == <<mgrVars, prmVars, uiVars, tally, cookieVars, recVars, cleanupVars, hookVars, moreVars>>

FetchSpecInit == ManagerInit /\ budget = MaxReq /\ ExtInit

FetchNext ==
    \/ (\E u \in Urls : start_fetch_job(u)) /\ UNCHANGED notFetchVars
    \/ (\E res \in ResolveOutcomes : FetchWorker_run(res)) /\ UNCHANGED notFetchVars
    \/ fetch_thread_quit /\ UNCHANGED notFetchVars
    \/ fetch_finished /\ UNCHANGED notFetchVars
    \/ fetch_error /\ UNCHANGED notFetchVars

FetchSpec == FetchSpecInit /\ [][FetchNext]_vars

\* C17: once FetchWorker.run is over it has emitted exactly one signal, either
\* finished with a non-empty descriptor list and no message or error with a
\* message and no list, and no exception has left run.
C17_ExactlyOneOutcome ==
    fetch_pc = "ran"
        => /\ ~fetch_raised
           /\ Len(fetch_emitted) = 1
           /\ \/ /\ fetch_emitted[1].sig = "finished"
                 /\ fetch_emitted[1].videos # <<>>
                 /\ fetch_emitted[1].videos[1] > 0
                 /\ fetch_emitted[1].message = <<>>
              \/ /\ fetch_emitted[1].sig = "error"
                 /\ fetch_emitted[1].message # <<>>
                 /\ fetch_emitted[1].videos = <<>>

\* C18: once FetchWorker.run has emitted its signal and every slot connected
\* to it has run, on the error path as on the success path, the fetch thread
\* is no longer running.
C18_FetchThreadQuits ==
    (fetch_pc = "ran" /\ fetch_emitted # <<>> /\ fetchQ = <<>>)
        => ~fetch_thread_running

\* C20: for a url that names bilibili.com or b23.tv and a DownloadError whose
\* message contains "412", the error message emitted is the rate-limiting
\* message and does not contain "412", whatever else the raw message contains.
C20_RateLimitMessage ==
    (/\ fetch_pc = "ran"
     /\ resolve_outcome.kind = "DownloadError"
     /\ Has("412", resolve_outcome.msg)
     /\ (NamesDomain(fetch_url, "bilibili.com") \/ NamesDomain(fetch_url, "b23.tv")))
        => /\ Len(fetch_emitted) = 1
           /\ fetch_emitted[1].sig = "error"
           /\ fetch_emitted[1].message = BilibiliRateLimitMessage
           /\ ~Has("412", fetch_emitted[1].message)

\* ------------------------------------------------ the history service alone
\* HistoryService constructed on a history file (none, or one holding an
\* entry of an earlier session), then add_entry called with any entries
Entries == [url : 1..MaxReq, status : Statuses]

\* load_history: the entries of the file, in the file's order
load_history(file) == file

HistoryInit ==
    /\ ManagerInit
    /\ budget = MaxReq
    /\ ParamsInit
    /\ WindowInit
    /\ CookieIdle
    /\ FetchInit
    /\ CleanupIdle
    /\ HookInit
    /\ MoreInit
    /\ download_table = {}
    /\ history_file \in {<<>>} \cup {<<e>> : e \in Entries}
    /\ history = load_history(history_file)
    /\ added = <<>>

\* history_service.add_entry(entry)
HistoryAdd(entry, save_ok) ==
    /\ Len(added) < MaxAdds
    /\ add_entry(entry, save_ok)
    /\ UNCHANGED <<mgrVars, prmVars, uiVars, tally, cookieVars, fetchVars, download_table,
                   cleanupVars, hookVars, moreVars>>

HistoryNext == \E entry \in Entries, save_ok \in BOOLEAN : HistoryAdd(entry, save_ok)

HistorySpec == HistoryInit /\ [][HistoryNext]_vars

Reverse(q) == [i \in 1..Len(q) |-> q[Len(q) + 1 - i]]

\* the entries the service loaded when it was constructed
Loaded == SubSeq(history, Len(added) + 1, Len(history))

\* C21: get_all returns the entries added, the latest first, ahead of the
\* entries loaded at construction (exactly the added entries when none was
\* loaded), and add_entry puts its entry in front and leaves every earlier
\* entry, added or loaded, as it was and in its place.
C21_AppendOnly ==
    /\ [](/\ Len(get_all) >= Len(added)
          /\ get_all = Reverse(added) \o Loaded
          /\ SubSeq(get_all, 1, Len(added)) = Reverse(added))
    /\ [][added' # added
            => /\ Len(get_all') = Len(get_all) + 1
               /\ get_all'[1] = added'[Len(added')]
               /\ \A i \in 1..Len(get_all) : get_all'[i + 1] = get_all[i]
               /\ Loaded' = Loaded]_vars

C21_Witness ==
    /\ Len(added) = MaxAdds
    /\ added[1] # added[2]
    /\ added[3] = added[1]
    /\ Loaded = <<>>
    /\ get_all = <<added[3], added[2], added[1]>>
    /\ history_file # history

\* ------------------------------------- cleanup of partial files, on its own
\* DownloadWorker._cleanup_incomplete_files run once on a destination folder,
\* while a download still under way may write to its partial file or finish
\* with it (yt-dlp renames the .part file away).

\* `current_time - file_mtime < 60`
RecencyWindow == 60

\* time.time() as read after the glob
ScanTime == 100

\* last-modified times: after the scan time was read, at it, just inside the
\* window, at its edge, and beyond it
Mtimes == {ScanTime + 1, ScanTime, ScanTime - (RecencyWindow - 1),
           ScanTime - RecencyWindow, ScanTime - (RecencyWindow + 1)}

\* a file of the folder: whether its name ends in .part, and its mtime
Files == [present : {TRUE}, part : BOOLEAN, mtime : Mtimes]

\* the recency test
InWindow_always(now, mtime) == TRUE
InWindow(now, mtime) == now - mtime < RecencyWindow

\* glob.glob(pattern + '.part'): the names ending in .part, f1 before f2
Globbed(dir) ==
    LET hit(f) == dir[f].present /\ dir[f].part
    IN (IF hit("f1") THEN <<"f1">> ELSE <<>>) \o (IF hit("f2") THEN <<"f2">> ELSE <<>>)

CleanupInit ==
    /\ ManagerInit
    /\ budget = MaxReq
    /\ ParamsInit
    /\ WindowInit
    /\ CookieIdle
    /\ FetchInit
    /\ RecInit
    /\ HookInit
    /\ MoreInit
    /\ folder \in [FileNames -> Files \cup {Absent}]
    /\ part_files = <<>>
    /\ cleanup_pc = "idle"
    /\ removed = {}

\* the sleep, the glob and the reading of the clock
cleanup_scan ==
    /\ cleanup_pc = "idle"
    /\ part_files' = Globbed(folder)
    /\ cleanup_pc' = "scanning"
    /\ UNCHANGED <<folder, removed>>

\* one turn of the loop over part_files; remove_ok: one of the ten os.remove
\* attempts succeeds
cleanup_look(remove_ok) ==
    /\ cleanup_pc = "scanning"
    /\ part_files # <<>>
    /\ part_files' = Tail(part_files)
    /\ LET f == Head(part_files)
       IN IF folder[f].present /\ InWindow(ScanTime, folder[f].mtime) /\ remove_ok
          THEN /\ folder' = [folder EXCEPT ![f] = Absent]
               /\ removed' = removed \cup {f}
          ELSE UNCHANGED <<folder, removed>>
    /\ UNCHANGED cleanup_pc

\* the loop is over
cleanup_end ==
    /\ cleanup_pc = "scanning"
    /\ part_files = <<>>
    /\ cleanup_pc' = "done"
    /\ UNCHANGED <<folder, part_files, removed>>

\* a download under way writes to its partial file
file_written(f) ==
    /\ cleanup_pc = "scanning"
    /\ folder[f].present
    /\ folder[f].part
    /\ folder[f].mtime # ScanTime + 1
    /\ folder' = [folder EXCEPT ![f].mtime = ScanTime + 1]
    /\ UNCHANGED <<part_files, cleanup_pc, removed>>

\* a download under way completes and renames its partial file away
file_renamed(f) ==
    /\ cleanup_pc = "scanning"
    /\ folder[f].present
    /\ folder[f].part
    /\ folder' = [folder EXCEPT ![f] = Absent]
    /\ UNCHANGED <<part_files, cleanup_pc, removed>>

notCleanupVars == <<mgrVars, prmVars, uiVars, tally, cookieVars, fetchVars, recVars, hookVars, moreVars>>

CleanupNext ==
    \/ cleanup_scan /\ UNCHANGED notCleanupVars
    \/ (\E remove_ok \in BOOLEAN : cleanup_look(remove_ok)) /\ UNCHANGED notCleanupVars
    \/ cleanup_end /\ UNCHANGED notCleanupVars
    \/ (\E f \in FileNames : file_written(f)) /\ UNCHANGED notCleanupVars
    \/ (\E f \in FileNames : file_renamed(f)) /\ UNCHANGED notCleanupVars

CleanupSpec == CleanupInit /\ [][CleanupNext]_vars

TickStatuses == {"downloading", "finished"}
Payloads == [status : TickStatuses, percent : {1, 2}]

\* `if self.cancellation_event and self.cancellation_event.is_set(): raise`
HookRaises(flag) == flag

\* `if d['status'] == 'downloading': self.signals.progress.emit(self.video_url, d)`
HookEmits_any(d) == TRUE
HookEmits(d) == d.status = "downloading"

\* one invocation of the hook of request r with payload d; a raise leaves
\* download_video as HookAborts describes
progress_hook(r, d) ==
    /\ pc[r] = "call"
    /\ IF HookRaises(cancellation_event)
       THEN /\ HookAborts(r)
            /\ hook_last' = [url |-> r, d |-> d, raised |-> TRUE]
            /\ UNCHANGED progress_log
       ELSE /\ hook_last' = [url |-> r, d |-> d, raised |-> FALSE]
            /\ IF HookEmits(d)
               THEN /\ Len(progress_log) < MaxTicks
                    /\ progress_log' = Append(progress_log, [url |-> r, d |-> d])
               ELSE UNCHANGED progress_log
            /\ UNCHANGED mgrVars

notHookVars == <<prmVars, uiVars, tally, cookieVars, fetchVars, recVars, cleanupVars,
                 moreVars>>

HookSpecInit ==
    /\ ManagerInit
    /\ budget = MaxReq
    /\ ExtInit

HookNext ==
    \/ (\E n \in 0..MaxReq : start_download_job(n)) /\ UNCHANGED extVars
    \/ (\E l \in LimitChoices : set_concurrent_downloads(l)) /\ UNCHANGED extVars
    \/ (stop_all_downloads) /\ UNCHANGED extVars
    \/ (DeliverOutcome) /\ UNCHANGED extVars
    \/ (OnCompletionStartNext) /\ UNCHANGED extVars
    \/ (\E r \in Req : WorkerBegin(r)) /\ UNCHANGED extVars
    \/ (\E r \in Req : \E d \in Payloads : progress_hook(r, d)) /\ UNCHANGED notHookVars
    \/ (\E r \in Req : \E ret \in DownloadVideoResults : CallReturns(r, ret)) /\ UNCHANGED extVars
    \/ (\E r \in Req : AfterCall(r)) /\ UNCHANGED extVars
    \/ (\E r \in Req : Emit(r)) /\ UNCHANGED extVars
    \/ (\E r \in Req : ThreadRelease(r)) /\ UNCHANGED extVars

HookSpec == HookSpecInit /\ [][HookNext]_vars

\* C30: an invocation of the hook made with the flag set raises (the call is
\* aborted) and emits no progress notification; one made with the flag unset
\* does not raise and, for a tick of status 'downloading', emits exactly one
\* progress notification, with the url of its task and the payload it was
\* given, while a tick of any other status emits none.
C30_ProgressHook ==
    [][(hook_last' # hook_last \/ progress_log' # progress_log)
          => LET h == hook_last'
             IN /\ pc[h.url] = "call"
                /\ h.raised = cancellation_event
                /\ IF cancellation_event
                   THEN /\ progress_log' = progress_log
                        /\ pc'[h.url] = "ret"
                   ELSE /\ pc'[h.url] = "call"
                        /\ IF h.d.status = "downloading"
                           THEN progress_log' =
                                    Append(progress_log, [url |-> h.url, d |-> h.d])
                           ELSE progress_log' = progress_log]_vars

C30_Witness ==
    /\ Len(progress_log) = MaxTicks
    /\ progress_log[1].url # progress_log[2].url
    /\ progress_log[1].d.percent # progress_log[2].d.percent
    /\ hook_last.raised
    /\ hook_last.d.status = "downloading"

\* ------------------------------------------- changing the limit while busy
\* the manager as in QueueSpec (three requests, so that two can run while one
\* waits), the argument of each set_concurrent_downloads call kept beside it

\* set_concurrent_downloads(limit) as called by its user
configure(limit) ==
    /\ set_concurrent_downloads(limit)
    /\ limit_arg' = <<limit>>

notLimitVars == <<prmVars, uiVars, tally, cookieVars, fetchVars, recVars, cleanupVars,
                  hookVars, retryVars, liveVars, seenVars, stopVars>>

LimitInit ==
    /\ ManagerInit
    /\ budget = MaxReq + 1
    /\ ExtInit

LimitNext ==
    \/ (\E n \in 0..(MaxReq + 1) : start_download_job(n)) /\ UNCHANGED extVars
    \/ (\E l \in LimitChoices : configure(l)) /\ UNCHANGED notLimitVars
    \/ (stop_all_downloads) /\ UNCHANGED extVars
    \/ (DeliverOutcome) /\ UNCHANGED extVars
    \/ (OnCompletionStartNext) /\ UNCHANGED extVars
    \/ (\E r \in Req : WorkerBegin(r)) /\ UNCHANGED extVars
    \/ (\E r \in Req : HookAborts(r)) /\ UNCHANGED extVars
    \/ (\E r \in Req : \E ret \in DownloadVideoResults : CallReturns(r, ret)) /\ UNCHANGED extVars
    \/ (\E r \in Req : AfterCall(r)) /\ UNCHANGED extVars
    \/ (\E r \in Req : Emit(r)) /\ UNCHANGED extVars
    \/ (\E r \in Req : ThreadRelease(r)) /\ UNCHANGED extVars

LimitSpec == LimitInit /\ [][LimitNext]_vars

\* C33: a call set_concurrent_downloads(n) makes the limit n when n >= 1 and
\* 1 when n < 1, and changes nothing else: the queue, the flag and every task
\* (its position, return value, outcome, notifications, its place in the
\* pool) are as before, also when n is below the number of running tasks; and
\* a queued request is started only by a step that finds fewer running tasks
\* than the limit in force, and leaves no more running than that limit.
C33_LowerDoesNotPreempt ==
    [][/\ (limit_arg' # limit_arg \/ maxThreadCount' # maxThreadCount)
          => /\ limit_arg' # <<>>
             /\ maxThreadCount' = (IF limit_arg'[1] >= 1 THEN limit_arg'[1] ELSE 1)
             /\ UNCHANGED <<download_queue, cancellation_event, activeThreads, pc, retv,
                            outcome, mainQ, delivered, started, dropped>>
       /\ started' # started
          => /\ Cardinality(ActiveTasks) < maxThreadCount
             /\ maxThreadCount' = maxThreadCount
             /\ Cardinality(ActiveTasks') <= maxThreadCount]_vars

\* the limit was set to 1 under two running tasks with a request waiting; one
\* of the two has finished since and the request is still waiting
C33_Witness ==
    /\ limit_arg = <<1>>
    /\ maxThreadCount = 1
    /\ Cardinality(ActiveTasks) = 1
    /\ Cardinality({r \in Req : pc[r] = "done"}) = 1
    /\ delivered[1] + delivered[2] = 1
    /\ mainQ = <<>>
    /\ download_queue = <<3>>
    /\ ~stopCalled

\* ------------------------------------------------ the queue under arrivals
NoDuplicates(q) == \A i, j \in 1..Len(q) : i # j => q[i] # q[j]

\* C34: with submissions, stops and completion slots arriving in any order,
\* every submitted request is in exactly one place (started, still queued, or
\* removed by a stop) and in it once; a step that starts requests takes them
\* from the head of the queue as the step finds it (after its own enqueue, if
\* it is a submission), never more than the queue holds, and leaves the rest
\* queued in order; a step that starts none and is no stop only appends to the
\* queue.
C34_SerializedQueue ==
    /\ [](/\ NoDuplicates(started \o download_queue)
          /\ Range(started) \cup Range(download_queue) \cup dropped = Submitted
          /\ dropped \cap (Range(started) \cup Range(download_queue)) = {})
    /\ [][LET q == download_queue \o Ids(nextReq, nextReq' - nextReq)
              k == Len(started') - Len(started)
          IN IF dropped' # dropped \/ (stopCalled' /\ ~stopCalled)
             THEN download_queue' = <<>> /\ started' = started
             ELSE /\ k >= 0
                  /\ k <= Len(q)
                  /\ started' = started \o SubSeq(q, 1, k)
                  /\ download_queue' = SubSeq(q, k + 1, Len(q))]_vars

\* a stop has removed request 2 from the queue, request 3 was submitted after
\* it and waits, and the completion of request 1 is pending on the main thread
C34_Witness ==
    /\ dropped = {2}
    /\ started = <<1>>
    /\ download_queue = <<3>>
    /\ mainQ # <<>>
    /\ headDelivered

\* ------------------------------------------------ a submission after a stop
\* the manager as in Spec, the tasks a stop finds running kept beside it

\* tasks in run() that have not made their last check of the flag
Undecided == {r \in Req : pc[r] \in {"ready", "call", "ret"}}

\* stop_all_downloads as called by its user
request_stop ==
    /\ stop_all_downloads
    /\ at_stop' = at_stop \cup Undecided

notStopVars == <<prmVars, uiVars, tally, cookieVars, fetchVars, recVars, cleanupVars,
                 hookVars, limitVars, retryVars, liveVars, seenVars>>

StopInit ==
    /\ ManagerInit
    /\ budget = MaxReq
    /\ ExtInit

StopNext ==
    \/ (\E n \in 0..(MaxReq + 1) : start_download_job(n)) /\ UNCHANGED extVars
    \/ (\E l \in LimitChoices : set_concurrent_downloads(l)) /\ UNCHANGED extVars
    \/ (request_stop) /\ UNCHANGED notStopVars
    \/ (DeliverOutcome) /\ UNCHANGED extVars
    \/ (OnCompletionStartNext) /\ UNCHANGED extVars
    \/ (\E r \in Req : WorkerBegin(r)) /\ UNCHANGED extVars
    \/ (\E r \in Req : HookAborts(r)) /\ UNCHANGED extVars
    \/ (\E r \in Req : \E ret \in DownloadVideoResults : CallReturns(r, ret)) /\ UNCHANGED extVars
    \/ (\E r \in Req : AfterCall(r)) /\ UNCHANGED extVars
    \/ (\E r \in Req : Emit(r)) /\ UNCHANGED extVars
    \/ (\E r \in Req : ThreadRelease(r)) /\ UNCHANGED extVars

StopSpec == StopInit /\ [][StopNext]_vars

\* C36: a task that a stop found running with its outcome not yet chosen ends
\* Cancelled, whatever is submitted afterwards: once such a task has chosen
\* its outcome, the outcome is cancelled.
C36_StopNotUndone ==
    \A r \in at_stop : pc[r] \in {"decided", "emitted", "done"} => outcome[r] = "cancelled"

\* ------------------------------------------------- the flag and the queue
\* C38: whenever the flag is set the queue is empty, and a step that starts a
\* request ends with the flag unset (a submission clears it before it
\* enqueues and starts; a completion slot finds requests queued only when the
\* flag is unset).
C38_FlagQueue ==
    /\ [](cancellation_event => download_queue = <<>>)
    /\ [][started' # started
             => /\ ~cancellation_event'
                /\ nextReq' = nextReq => ~cancellation_event]_vars

\* the flag is set, a stop having emptied a queue that held a request, and a
\* completion slot is about to run _start_next_download
C38_Witness ==
    /\ cancellation_event
    /\ dropped # {}
    /\ download_queue = <<>>
    /\ mainQ # <<>>
    /\ headDelivered
    /\ Len(started) = 1

\* ------------------------------------- one cancelled task and its cleanup
\* A run that submits a single request, with _cleanup_incomplete_files
\* followed statement by statement between the choice of the cancelled
\* outcome and its emit.

\* `max_retries = 10`
max_retries == 10

\* `time.sleep(1.0)` between two attempts
RetryDelay == 1

\* `for attempt in range(max_retries)`: a further attempt is made
MoreAttempts_onemore(a) == a <= max_retries
MoreAttempts(a) == a < max_retries

\* `if attempt < max_retries - 1`, attempt being the index of the failed one
SleepsAfter(index) == index < max_retries - 1

\* a partial file written to a moment before the scan
Fresh == [present |-> TRUE, part |-> TRUE, mtime |-> ScanTime]

\* the task whose run() is inside _cleanup_incomplete_files
Cleaning == {r \in Req : pc[r] = "decided" /\ cleanup_called[r]}

RetryInit ==
    /\ ManagerInit
    /\ budget = 1
    /\ ParamsInit
    /\ WindowInit
    /\ CookieIdle
    /\ FetchInit
    /\ RecInit
    /\ HookInit
    /\ limit_arg = <<>>
    /\ live = {}
    /\ progress_seen = [r \in Req |-> 0]
    /\ at_stop = {}
    /\ folder \in [FileNames -> {Fresh, Absent}]
    /\ part_files = <<>>
    /\ cleanup_pc = "idle"
    /\ removed = {}
    /\ attempt = 0
    /\ waited = 0
    /\ scan_raised = FALSE

\* the sleep, the glob, the clock; raises: one of them raises and the outer
\* handler logs it
retry_scan(raises) ==
    /\ Cleaning # {}
    /\ cleanup_pc = "idle"
    /\ IF raises
       THEN /\ scan_raised' = TRUE
            /\ cleanup_pc' = "done"
            /\ UNCHANGED part_files
       ELSE /\ part_files' = Globbed(folder)
            /\ cleanup_pc' = "scanning"
            /\ UNCHANGED scan_raised
    /\ UNCHANGED <<folder, removed, attempt, waited>>

\* the next file of the list: exists, getmtime, the recency test; raises: one
\* of the two calls raises and the inner handler logs it
retry_look(raises) ==
    /\ cleanup_pc = "scanning"
    /\ part_files # <<>>
    /\ LET f == Head(part_files)
       IN IF ~raises /\ folder[f].present /\ InWindow(ScanTime, folder[f].mtime)
          THEN /\ cleanup_pc' = "removing"
               /\ attempt' = 0
               /\ waited' = 0
               /\ UNCHANGED part_files
          ELSE /\ part_files' = Tail(part_files)
               /\ UNCHANGED <<cleanup_pc, attempt, waited>>
    /\ UNCHANGED <<folder, removed, scan_raised>>

\* one os.remove attempt; ok: it succeeds, otherwise OSError
retry_attempt(ok) ==
    /\ cleanup_pc = "removing"
    /\ MoreAttempts(attempt)
    /\ attempt' = attempt + 1
    /\ LET f == Head(part_files)
       IN IF ok /\ folder[f].present
          THEN /\ folder' = [folder EXCEPT ![f] = Absent]
               /\ removed' = removed \cup {f}
               /\ part_files' = Tail(part_files)
               /\ cleanup_pc' = "scanning"
               /\ UNCHANGED waited
          ELSE /\ waited' = (IF SleepsAfter(attempt) THEN waited + RetryDelay ELSE waited)
               /\ UNCHANGED <<folder, removed, part_files, cleanup_pc>>
    /\ UNCHANGED scan_raised

\* the range is exhausted without a break: on to the next file
retry_exhausted ==
    /\ cleanup_pc = "removing"
    /\ ~MoreAttempts(attempt)
    /\ part_files' = Tail(part_files)
    /\ cleanup_pc' = "scanning"
    /\ UNCHANGED <<folder, removed, attempt, waited, scan_raised>>

\* the list is exhausted
retry_end ==
    /\ cleanup_pc = "scanning"
    /\ part_files = <<>>
    /\ cleanup_pc' = "done"
    /\ UNCHANGED <<folder, part_files, removed, attempt, waited, scan_raised>>

\* the download renames its partial file away while the cleanup is at work
retry_file_renamed(f) ==
    /\ cleanup_pc \in {"scanning", "removing"}
    /\ folder[f].present
    /\ folder' = [folder EXCEPT ![f] = Absent]
    /\ UNCHANGED <<part_files, cleanup_pc, removed, attempt, waited, scan_raised>>

\* the emit that follows: the cancelled paths emit once the cleanup has returned
EmitAfterCleanup(r) ==
    /\ cleanup_called[r] => cleanup_pc = "done"
    /\ Emit(r)

notRetryVars == <<mgrVars, prmVars, uiVars, tally, cookieVars, fetchVars, recVars, hookVars,
                  limitVars, liveVars, seenVars, stopVars>>

RetryNext ==
    \/ (\E n \in 0..1 : start_download_job(n)) /\ UNCHANGED extVars
    \/ (\E l \in LimitChoices : set_concurrent_downloads(l)) /\ UNCHANGED extVars
    \/ (stop_all_downloads) /\ UNCHANGED extVars
    \/ (DeliverOutcome) /\ UNCHANGED extVars
    \/ (OnCompletionStartNext) /\ UNCHANGED extVars
    \/ (\E r \in Req : WorkerBegin(r)) /\ UNCHANGED extVars
    \/ (\E r \in Req : HookAborts(r)) /\ UNCHANGED extVars
    \/ (\E r \in Req : \E ret \in DownloadVideoResults : CallReturns(r, ret)) /\ UNCHANGED extVars
    \/ (\E r \in Req : AfterCall(r)) /\ UNCHANGED extVars
    \/ (\E raises \in BOOLEAN : retry_scan(raises)) /\ UNCHANGED notRetryVars
    \/ (\E raises \in BOOLEAN : retry_look(raises)) /\ UNCHANGED notRetryVars
    \/ (\E ok \in BOOLEAN : retry_attempt(ok)) /\ UNCHANGED notRetryVars
    \/ (retry_exhausted) /\ UNCHANGED notRetryVars
    \/ (retry_end) /\ UNCHANGED notRetryVars
    \/ (\E f \in FileNames : retry_file_renamed(f)) /\ UNCHANGED notRetryVars
    \/ (\E r \in Req : EmitAfterCleanup(r)) /\ UNCHANGED extVars
    \/ (\E r \in Req : ThreadRelease(r)) /\ UNCHANGED extVars

RetrySpec == RetryInit /\ [][RetryNext]_vars

\* what is left for the cleanup to do, at most: it falls with every step of
\* the cleanup
CleanupWork ==
    IF cleanup_pc = "idle" THEN (Cardinality(FileNames) + 1) * (max_retries + 2) + 1
    ELSE IF cleanup_pc = "done" THEN 0
    ELSE Len(part_files) * (max_retries + 2) + 1
         - (IF cleanup_pc = "removing" THEN attempt + 1 ELSE 0)

\* C31: the cleanup of a cancelled task ends and keeps within its bounds:
\* every step of it lowers the work left, which is never negative; at most 10
\* removals are attempted on a file, with one second slept after each failed
\* attempt but the last; and whether the removals succeed, fail every time, or
\* the scan raises, the task's outcome stays cancelled with no error message,
\* it emits only when the cleanup has returned, and it emits exactly one
\* notification, a cancelled one.
C31_CleanupBounded ==
    /\ [](/\ CleanupWork >= 0
          /\ attempt <= 10
          /\ waited \in {RetryDelay * attempt, RetryDelay * (attempt - 1)}
          /\ waited <= RetryDelay * 9
          /\ \A r \in Req :
                cleanup_called[r]
                   => /\ outcome[r] = "cancelled"
                      /\ error_message[r] = None
                      /\ pc[r] \in {"emitted", "done"}
                            => (cleanup_pc = "done" /\ Emitted(r) = 1)
                      /\ \A i \in 1..Len(mainQ) :
                            mainQ[i].url = r => mainQ[i].kind = "cancelled")
    /\ [][<<folder, part_files, cleanup_pc, removed, attempt, waited, scan_raised>>'
             # <<folder, part_files, cleanup_pc, removed, attempt, waited, scan_raised>>
          => (CleanupWork' < CleanupWork \/ (folder' # folder /\ removed' = removed
                                             /\ CleanupWork' = CleanupWork))]_vars

\* every one of the ten attempts on a file failed, and the task has reported
C31_Witness ==
    /\ attempt = 10
    /\ waited = 9
    /\ removed = {}
    /\ folder["f1"].present
    /\ cleanup_pc = "done"
    /\ \E r \in Req : cleanup_called[r] /\ delivered[r] = 1 /\ retv[r] # NoReturn

\* --------------------------------- a cleanup beside downloads still under way
\* _cleanup_incomplete_files of a cancelled task run on a destination folder
\* into which tasks that are not cancelled are still downloading: every worker
\* is built with the same app_settings.download_folder_path, and a task is
\* started with the flag unset by any submission made after the stop.

LiveInit ==
    /\ ManagerInit
    /\ budget = MaxReq
    /\ ParamsInit
    /\ WindowInit
    /\ CookieIdle
    /\ FetchInit
    /\ RecInit
    /\ HookInit
    /\ limit_arg = <<>>
    /\ attempt = 0
    /\ waited = 0
    /\ scan_raised = FALSE
    /\ progress_seen = [r \in Req |-> 0]
    /\ at_stop = {}
    /\ folder \in [FileNames -> Files \cup {Absent}]
    /\ live \in SUBSET {f \in FileNames : folder[f].present /\ folder[f].part}
    /\ part_files = <<>>
    /\ cleanup_pc = "idle"
    /\ removed = {}

\* a live download completes and renames its partial file away, or another
\* download does
live_file_renamed(f) ==
    /\ file_renamed(f)
    /\ live' = live \ {f}

notLiveVars == <<mgrVars, prmVars, uiVars, tally, cookieVars, fetchVars, recVars, hookVars,
                 limitVars, retryVars, seenVars, stopVars>>

LiveNext ==
    \/ cleanup_scan /\ UNCHANGED <<live, notLiveVars>>
    \/ (\E remove_ok \in BOOLEAN : cleanup_look(remove_ok)) /\ UNCHANGED <<live, notLiveVars>>
    \/ cleanup_end /\ UNCHANGED <<live, notLiveVars>>
    \/ (\E f \in FileNames : file_written(f)) /\ UNCHANGED <<live, notLiveVars>>
    \/ (\E f \in FileNames : live_file_renamed(f)) /\ UNCHANGED notLiveVars

LiveSpec == LiveInit /\ [][LiveNext]_vars

\* C37: the cleanup of a cancelled task removes no partial file that a task
\* which is not cancelled is still downloading.
C37_LiveFilesKept == removed \cap live = {}

\* ------------------------------------ progress notifications on their way
\* worker.signals.progress is connected to manager.download_progress like the
\* terminal signals are to manager.download_finished / _error / _cancelled:
\* emitted on the pool thread, each is posted to the main thread, which runs
\* the posted calls oldest first.

\* yt-dlp calls the hook only from inside download_video
HookCallable_afteremit(r) == pc[r] \in {"call", "emitted"}
HookCallable(r) == pc[r] = "call"

IsProgress(e) == e.kind = "progress"

\* progress notifications posted so far, delivered or not
Ticks ==
    SumOver(progress_seen, Req) + Cardinality({i \in 1..Len(mainQ) : IsProgress(mainQ[i])})

\* progress_hook(d) with the flag unset and a 'downloading' payload: the
\* progress signal is emitted and posted
progress_posted(r) ==
    /\ HookCallable(r)
    /\ ~HookRaises(cancellation_event)
    /\ \E d \in Payloads : HookEmits(d)
    /\ Ticks < MaxTicks
    /\ mainQ' = Append(mainQ, [url |-> r, kind |-> "progress"])
    /\ UNCHANGED <<download_queue, maxThreadCount, activeThreads, cancellation_event,
                   nextReq, pc, retv, outcome, headDelivered, delivered, started, dropped,
                   stopCalled, budget, cleanup_called, error_message>>

\* the oldest posted call is a progress notification: manager.download_progress
\* is emitted to the presentation layer
DeliverProgress ==
    /\ mainQ # <<>>
    /\ IsProgress(Head(mainQ))
    /\ progress_seen' = [progress_seen EXCEPT ![Head(mainQ).url] = @ + 1]
    /\ mainQ' = Tail(mainQ)
    /\ UNCHANGED <<download_queue, maxThreadCount, activeThreads, cancellation_event,
                   nextReq, pc, retv, outcome, headDelivered, delivered, started, dropped,
                   stopCalled, budget, cleanup_called, error_message>>

\* the oldest posted call is a terminal signal: its two slots
DeliverTerminal ==
    /\ mainQ # <<>>
    /\ ~IsProgress(Head(mainQ))
    /\ DeliverOutcome

StartNextAfterTerminal ==
    /\ mainQ # <<>>
    /\ ~IsProgress(Head(mainQ))
    /\ OnCompletionStartNext

notSeenVars == <<prmVars, uiVars, tally, cookieVars, fetchVars, recVars, cleanupVars,
                 hookVars, limitVars, retryVars, liveVars, stopVars>>

ProgressInit ==
    /\ ManagerInit
    /\ budget = MaxReq
    /\ ExtInit

ProgressNext ==
    \/ (\E n \in 0..(MaxReq + 1) : start_download_job(n)) /\ UNCHANGED extVars
    \/ (\E l \in LimitChoices : set_concurrent_downloads(l)) /\ UNCHANGED extVars
    \/ (stop_all_downloads) /\ UNCHANGED extVars
    \/ (DeliverProgress) /\ UNCHANGED notSeenVars
    \/ (DeliverTerminal) /\ UNCHANGED extVars
    \/ (StartNextAfterTerminal) /\ UNCHANGED extVars
    \/ (\E r \in Req : WorkerBegin(r)) /\ UNCHANGED extVars
    \/ (\E r \in Req : progress_posted(r)) /\ UNCHANGED extVars
    \/ (\E r \in Req : HookAborts(r)) /\ UNCHANGED extVars
    \/ (\E r \in Req : \E ret \in DownloadVideoResults : CallReturns(r, ret)) /\ UNCHANGED extVars
    \/ (\E r \in Req : AfterCall(r)) /\ UNCHANGED extVars
    \/ (\E r \in Req : Emit(r)) /\ UNCHANGED extVars
    \/ (\E r \in Req : ThreadRelease(r)) /\ UNCHANGED extVars

ProgressSpec == ProgressInit /\ [][ProgressNext]_vars

\* C39: among the calls posted to the main thread every progress notification
\* of a task stands before that task's terminal notification; once the
\* terminal notification of a task has been delivered none of its progress
\* notifications is pending; and a step that delivers a progress notification
\* of a task is made while its terminal notification is still undelivered.
C39_ProgressFirst ==
    /\ [](\A r \in Req :
             /\ \A i, j \in 1..Len(mainQ) :
                   (mainQ[i].url = r /\ mainQ[j].url = r
                      /\ IsProgress(mainQ[i]) /\ ~IsProgress(mainQ[j])) => i < j
             /\ delivered[r] > 0
                   => \A i \in 1..Len(mainQ) : ~(mainQ[i].url = r /\ IsProgress(mainQ[i])))
    /\ [][\A r \in Req : progress_seen'[r] > progress_seen[r] => delivered[r] = 0]_vars

\* two progress notifications and then the terminal one of a task have been
\* delivered
C39_Witness ==
    \E r \in Req : progress_seen[r] = MaxTicks /\ delivered[r] = 1

\* ------------------------------------------------ the manager kept running
\* The manager as in Spec, with what its scheduling guarantees: the main
\* thread's event loop runs every posted slot, a pool thread that has been
\* handed a worker runs it statement after statement, and the external call
\* of a running task eventually returns or, the flag being set, calls the
\* progress hook.
ExternalCallEnds(r) ==
    \/ \E ret \in DownloadVideoResults : CallReturns(r, ret)
    \/ HookAborts(r)

Fairness ==
    /\ WF_headDelivered(DeliverOutcome /\ UNCHANGED extVars)
    /\ WF_headDelivered(OnCompletionStartNext /\ UNCHANGED extVars)
    /\ \A r \in Req :
          /\ WF_pc(WorkerBegin(r) /\ UNCHANGED extVars)
          /\ WF_pc(ExternalCallEnds(r) /\ UNCHANGED extVars)
          /\ WF_pc(AfterCall(r) /\ UNCHANGED extVars)
          /\ WF_pc(Emit(r) /\ UNCHANGED extVars)
          /\ WF_pc(ThreadRelease(r) /\ UNCHANGED extVars)

FairSpec == Init /\ [][Next]_vars /\ Fairness

\* C32: with the flag set (a stop was made and nothing submitted since) the
\* manager is idle as soon as no task is running, and it eventually is idle
\* unless a submission comes first; and an idle manager stays idle until a
\* step that submits requests.
C32_IdleAfterStop ==
    /\ []((cancellation_event /\ ActiveTasks = {}) => is_idle)
    /\ [][(is_idle /\ ~is_idle') => nextReq' > nextReq]_vars
    /\ cancellation_event ~> (is_idle \/ ~cancellation_event)

\* idle again after a stop that found a task running and a request queued
C32_Witness ==
    /\ cancellation_event
    /\ is_idle
    /\ dropped # {}
    /\ \E r \in Req : outcome[r] = "cancelled" /\ pc[r] = "done"

\* ------------------------------------------------------ the Download button
\* C35 (checked under WindowSpec): while disabled the button reads
\* 'Downloading k/N', N the size of the batch and k the outcomes handled since
\* it was submitted; while enabled it reads 'Download'; and it is not left
\* disabled: once nothing is running, nothing is queued and no notification
\* is pending, so that no handler will be called again, it is enabled.
C35_DownloadButton ==
    /\ ~download_button_enabled
          => download_button_text
                = <<"Downloading", download_completed_count, download_queue_total>>
    /\ download_button_enabled => download_button_text = <<"Download">>
    /\ (Settled /\ download_queue = <<>>) => download_button_enabled

====
